---- MODULE Spec2Model ----
(***************************************************************************)
(* Magnum mesh description layer: vertex format metadata (Magnum/Mesh.h,   *)
(* Mesh.cpp), attribute names, index and attribute descriptors and the     *)
(* MeshData container (Magnum/Trade/MeshData.h).                           *)
(*                                                                         *)
(* A failed CORRADE_ASSERT / CORRADE_CONSTEXPR_ASSERT ends the call: the   *)
(* operators below return Fail(message) for it and Ok(value) otherwise.    *)
(***************************************************************************)
EXTENDS Integers, Sequences, FiniteSets, TLC

VARIABLES data, call

vars == <<data, call>>

Ok(v) == [ok |-> TRUE, value |-> v]

Fail(m) == [ok |-> FALSE, message |-> m]

----------------------------------------------------------------------------
(* 32-bit unsigned values.  A value is split into bit 31 (top) and the     *)
(* remaining 31 bits (low), so that every UnsignedInt is representable.    *)

Low31Max == 2147483647

U32(top, low) == [top |-> top, low |-> low]

Bit31 == U32(1, 0)

(* x & (1u << 31) *)
U32AndBit31(x) == U32(x.top, 0)

(* x | (1u << 31) *)
U32OrBit31(x) == U32(1, x.low)

(* x & ~(1u << 31) *)
U32AndNotBit31(x) == U32(0, x.low)

(* conversion of an UnsignedInt to bool *)
U32NonZero(x) == x.top # 0 \/ x.low # 0

----------------------------------------------------------------------------
(* enum class VertexFormat: enumerators in declaration order, Float = 1.   *)

VertexFormatNames ==
    << "Float", "Half", "Double",
       "UnsignedByte", "UnsignedByteNormalized", "Byte", "ByteNormalized",
       "UnsignedShort", "UnsignedShortNormalized", "Short", "ShortNormalized",
       "UnsignedInt", "Int",
       "Vector2", "Vector2h", "Vector2d",
       "Vector2ub", "Vector2ubNormalized", "Vector2b", "Vector2bNormalized",
       "Vector2us", "Vector2usNormalized", "Vector2s", "Vector2sNormalized",
       "Vector2ui", "Vector2i",
       "Vector3", "Vector3h", "Vector3d",
       "Vector3ub", "Vector3ubNormalized", "Vector3b", "Vector3bNormalized",
       "Vector3us", "Vector3usNormalized", "Vector3s", "Vector3sNormalized",
       "Vector3ui", "Vector3i",
       "Vector4", "Vector4h", "Vector4d",
       "Vector4ub", "Vector4ubNormalized", "Vector4b", "Vector4bNormalized",
       "Vector4us", "Vector4usNormalized", "Vector4s", "Vector4sNormalized",
       "Vector4ui", "Vector4i" >>

(* VertexFormat::name as its 32-bit value *)
VertexFormat(name) ==
    U32(0, CHOOSE i \in 1..Len(VertexFormatNames) : VertexFormatNames[i] = name)

(* VertexFormat{}, the reserved invalid value *)
VertexFormatNone == U32(0, 0)

(* the enumerator selected when only the low 31 bits are looked at *)
VertexFormatCaseLowOnly(format) ==
    IF format.low \in 1..Len(VertexFormatNames)
    THEN VertexFormatNames[format.low] ELSE ""

(* the enumerator a switch(format) statement selects, "" for the default *)
VertexFormatCase(format) ==
    IF format.top = 0 /\ format.low \in 1..Len(VertexFormatNames)
    THEN VertexFormatNames[format.low] ELSE ""

isVertexFormatImplementationSpecific(format) == U32NonZero(U32AndBit31(format))

vertexFormatWrap(implementationSpecific) ==
    IF ~U32NonZero(U32AndBit31(implementationSpecific))
    THEN Ok(U32OrBit31(implementationSpecific))
    ELSE Fail("vertexFormatWrap(): implementation-specific value already wrapped or too large")

(* vertexFormatUnwrap() that leaves bit 31 in place *)
vertexFormatUnwrapKeepsBit(format) ==
    IF U32NonZero(U32AndBit31(format))
    THEN Ok(format)
    ELSE Fail("vertexFormatUnwrap(): isn't a wrapped implementation-specific value")

vertexFormatUnwrap(format) ==
    IF U32NonZero(U32AndBit31(format))
    THEN Ok(U32AndNotBit31(format))
    ELSE Fail("vertexFormatUnwrap(): isn't a wrapped implementation-specific value")

vertexFormatSize(format) ==
    LET c == VertexFormatCase(format) IN
    CASE c \in {"UnsignedByte", "UnsignedByteNormalized", "Byte", "ByteNormalized"} -> Ok(1)
      [] c \in {"Half", "UnsignedShort", "UnsignedShortNormalized", "Short",
                "ShortNormalized", "Vector2ub", "Vector2ubNormalized", "Vector2b",
                "Vector2bNormalized"} -> Ok(2)
      [] c \in {"Vector3ub", "Vector3ubNormalized", "Vector3b", "Vector3bNormalized"} -> Ok(3)
      [] c \in {"Float", "UnsignedInt", "Int", "Vector2h", "Vector2us",
                "Vector2usNormalized", "Vector2s", "Vector2sNormalized", "Vector4ub",
                "Vector4ubNormalized", "Vector4b", "Vector4bNormalized"} -> Ok(4)
      [] c \in {"Vector3h", "Vector3us", "Vector3usNormalized", "Vector3s",
                "Vector3sNormalized"} -> Ok(6)
      [] c \in {"Double", "Vector2", "Vector2ui", "Vector2i", "Vector4h", "Vector4us",
                "Vector4usNormalized", "Vector4s", "Vector4sNormalized"} -> Ok(8)
      [] c \in {"Vector3", "Vector3ui", "Vector3i"} -> Ok(12)
      [] c \in {"Vector2d", "Vector4", "Vector4ui", "Vector4i"} -> Ok(16)
      [] c \in {"Vector3d"} -> Ok(24)
      [] c \in {"Vector4d"} -> Ok(32)
      [] OTHER -> Fail("vertexFormatSize(): invalid format")

vertexFormatComponentCount(format) ==
    LET c == VertexFormatCase(format) IN
    CASE c \in {"Float", "Half", "Double", "UnsignedByte", "UnsignedByteNormalized",
                "Byte", "ByteNormalized", "UnsignedShort", "UnsignedShortNormalized",
                "Short", "ShortNormalized", "UnsignedInt", "Int"} -> Ok(1)
      [] c \in {"Vector2", "Vector2h", "Vector2d", "Vector2ub", "Vector2ubNormalized",
                "Vector2b", "Vector2bNormalized", "Vector2us", "Vector2usNormalized",
                "Vector2s", "Vector2sNormalized", "Vector2ui", "Vector2i"} -> Ok(2)
      [] c \in {"Vector3", "Vector3h", "Vector3d", "Vector3ub", "Vector3ubNormalized",
                "Vector3b", "Vector3bNormalized", "Vector3us", "Vector3usNormalized",
                "Vector3s", "Vector3sNormalized", "Vector3ui", "Vector3i"} -> Ok(3)
      [] c \in {"Vector4", "Vector4h", "Vector4d", "Vector4ub", "Vector4ubNormalized",
                "Vector4b", "Vector4bNormalized", "Vector4us", "Vector4usNormalized",
                "Vector4s", "Vector4sNormalized", "Vector4ui", "Vector4i"} -> Ok(4)
      [] OTHER -> Fail("vertexFormatComponentCount(): invalid format")

(* vertexFormatComponentFormat() that would hand a one-component format
   back as it is *)
vertexFormatComponentFormatOfScalar(format) ==
    LET c == VertexFormatCase(format) IN
    CASE c \in {"Float", "Vector2", "Vector3", "Vector4"} -> Ok(VertexFormat("Float"))
      [] c \in {"Half", "Vector2h", "Vector3h", "Vector4h"} -> Ok(VertexFormat("Half"))
      [] c \in {"Double", "Vector2d", "Vector3d", "Vector4d"} -> Ok(VertexFormat("Double"))
      [] c \in {"UnsignedByteNormalized", "ByteNormalized",
                "UnsignedShortNormalized", "ShortNormalized"} -> Ok(format)
      [] c \in {"UnsignedByte", "Vector2ub", "Vector2ubNormalized", "Vector3ub",
                "Vector3ubNormalized", "Vector4ub", "Vector4ubNormalized"}
            -> Ok(VertexFormat("UnsignedByte"))
      [] c \in {"Byte", "Vector2b", "Vector2bNormalized", "Vector3b",
                "Vector3bNormalized", "Vector4b", "Vector4bNormalized"}
            -> Ok(VertexFormat("Byte"))
      [] c \in {"UnsignedShort", "Vector2us", "Vector2usNormalized", "Vector3us",
                "Vector3usNormalized", "Vector4us", "Vector4usNormalized"}
            -> Ok(VertexFormat("UnsignedShort"))
      [] c \in {"Short", "Vector2s", "Vector2sNormalized", "Vector3s",
                "Vector3sNormalized", "Vector4s", "Vector4sNormalized"}
            -> Ok(VertexFormat("Short"))
      [] c \in {"UnsignedInt", "Vector2ui", "Vector3ui", "Vector4ui"}
            -> Ok(VertexFormat("UnsignedInt"))
      [] c \in {"Int", "Vector2i", "Vector3i", "Vector4i"} -> Ok(VertexFormat("Int"))
      [] OTHER -> Fail("vertexFormatComponentType(): invalid format")

vertexFormatComponentFormat(format) ==
    LET c == VertexFormatCase(format) IN
    CASE c \in {"Float", "Vector2", "Vector3", "Vector4"} -> Ok(VertexFormat("Float"))
      [] c \in {"Half", "Vector2h", "Vector3h", "Vector4h"} -> Ok(VertexFormat("Half"))
      [] c \in {"Double", "Vector2d", "Vector3d", "Vector4d"} -> Ok(VertexFormat("Double"))
      [] c \in {"UnsignedByte", "UnsignedByteNormalized", "Vector2ub",
                "Vector2ubNormalized", "Vector3ub", "Vector3ubNormalized", "Vector4ub",
                "Vector4ubNormalized"} -> Ok(VertexFormat("UnsignedByte"))
      [] c \in {"Byte", "ByteNormalized", "Vector2b", "Vector2bNormalized", "Vector3b",
                "Vector3bNormalized", "Vector4b", "Vector4bNormalized"}
            -> Ok(VertexFormat("Byte"))
      [] c \in {"UnsignedShort", "UnsignedShortNormalized", "Vector2us",
                "Vector2usNormalized", "Vector3us", "Vector3usNormalized", "Vector4us",
                "Vector4usNormalized"} -> Ok(VertexFormat("UnsignedShort"))
      [] c \in {"Short", "ShortNormalized", "Vector2s", "Vector2sNormalized", "Vector3s",
                "Vector3sNormalized", "Vector4s", "Vector4sNormalized"}
            -> Ok(VertexFormat("Short"))
      [] c \in {"UnsignedInt", "Vector2ui", "Vector3ui", "Vector4ui"}
            -> Ok(VertexFormat("UnsignedInt"))
      [] c \in {"Int", "Vector2i", "Vector3i", "Vector4i"} -> Ok(VertexFormat("Int"))
      [] OTHER -> Fail("vertexFormatComponentType(): invalid format")

(* isVertexFormatNormalized() that would know no normalized format *)
isVertexFormatNormalizedNever(format) ==
    IF VertexFormatCase(format) # "" THEN Ok(FALSE)
    ELSE Fail("isVertexFormatNormalized(): invalid format")

isVertexFormatNormalized(format) ==
    LET c == VertexFormatCase(format) IN
    CASE c \in {"Float", "Half", "Double", "UnsignedByte", "Byte", "UnsignedShort",
                "Short", "UnsignedInt", "Int",
                "Vector2", "Vector2h", "Vector2d", "Vector2ub", "Vector2b", "Vector2us",
                "Vector2s", "Vector2ui", "Vector2i",
                "Vector3", "Vector3h", "Vector3d", "Vector3ub", "Vector3b", "Vector3us",
                "Vector3s", "Vector3ui", "Vector3i",
                "Vector4", "Vector4h", "Vector4d", "Vector4ub", "Vector4b", "Vector4us",
                "Vector4s", "Vector4ui", "Vector4i"} -> Ok(FALSE)
      [] c \in {"UnsignedByteNormalized", "ByteNormalized", "UnsignedShortNormalized",
                "ShortNormalized", "Vector2ubNormalized", "Vector2bNormalized",
                "Vector2usNormalized", "Vector2sNormalized", "Vector3ubNormalized",
                "Vector3bNormalized", "Vector3usNormalized", "Vector3sNormalized",
                "Vector4ubNormalized", "Vector4bNormalized", "Vector4usNormalized",
                "Vector4sNormalized"} -> Ok(TRUE)
      [] OTHER -> Fail("isVertexFormatNormalized(): invalid format")

(* the normalization step that lets every other component format through *)
vertexFormatMakeNormalizedLenient(componentFormat) ==
    LET c == VertexFormatCase(componentFormat) IN
    CASE c = "UnsignedByte" -> Ok(VertexFormat("UnsignedByteNormalized"))
      [] c = "Byte" -> Ok(VertexFormat("ByteNormalized"))
      [] c = "UnsignedShort" -> Ok(VertexFormat("UnsignedShortNormalized"))
      [] c = "Short" -> Ok(VertexFormat("ShortNormalized"))
      [] OTHER -> Ok(componentFormat)

(* first half of vertexFormat(): the component format made normalized *)
vertexFormatMakeNormalized(componentFormat) ==
    LET c == VertexFormatCase(componentFormat) IN
    CASE c = "UnsignedByte" -> Ok(VertexFormat("UnsignedByteNormalized"))
      [] c = "Byte" -> Ok(VertexFormat("ByteNormalized"))
      [] c = "UnsignedShort" -> Ok(VertexFormat("UnsignedShortNormalized"))
      [] c = "Short" -> Ok(VertexFormat("ShortNormalized"))
      [] OTHER -> Fail("vertexFormat(): can't be made normalized")

(* the vector format computed without subtracting VertexFormat::Float *)
vertexFormatOffsetFromZero(vector, componentFormat) ==
    U32(0, VertexFormat(vector).low + componentFormat.low)

(* VertexFormat(UnsignedInt(VertexFormat::VectorN) + UnsignedInt(componentFormat)
   - UnsignedInt(VertexFormat::Float)); the operands are enumerators, so the
   32-bit sum stays far below bit 31 *)
vertexFormatOffsetFrom(vector, componentFormat) ==
    U32(0, VertexFormat(vector).low + componentFormat.low - VertexFormat("Float").low)

vertexFormat(format, componentCount, normalized) ==
    LET component == vertexFormatComponentFormat(format) IN
    IF ~component.ok THEN component ELSE
    LET made == IF normalized THEN vertexFormatMakeNormalized(component.value)
                ELSE component IN
    IF ~made.ok THEN made ELSE
    CASE componentCount = 1 -> Ok(made.value)
      [] componentCount = 2 -> Ok(vertexFormatOffsetFrom("Vector2", made.value))
      [] componentCount = 3 -> Ok(vertexFormatOffsetFrom("Vector3", made.value))
      [] componentCount = 4 -> Ok(vertexFormatOffsetFrom("Vector4", made.value))
      [] OTHER -> Fail("vertexFormat(): invalid component count")

----------------------------------------------------------------------------
(* enum class MeshAttribute: UnsignedShort *)

UnsignedShortMax == 65535

(* conversion of an int to UnsignedShort *)
UnsignedShort(x) == x % (UnsignedShortMax + 1)

MeshAttributePosition == 1

MeshAttributeNormal == 2

MeshAttributeTextureCoordinates == 3

MeshAttributeColor == 4

MeshAttributeCustom == 32768

(* isMeshAttributeCustom() with > in place of >= *)
isMeshAttributeCustomAbove(name) == UnsignedShort(name) > UnsignedShort(MeshAttributeCustom)

isMeshAttributeCustom(name) == UnsignedShort(name) >= UnsignedShort(MeshAttributeCustom)

(* meshAttributeCustom(UnsignedShort id) *)
meshAttributeCustom(id) ==
    IF id < UnsignedShort(MeshAttributeCustom)
    THEN Ok(UnsignedShort(UnsignedShort(MeshAttributeCustom) + id))
    ELSE Fail("Trade::meshAttributeCustom(): index too large")

(* meshAttributeCustom(MeshAttribute name) *)
meshAttributeCustomId(name) ==
    IF isMeshAttributeCustom(name)
    THEN Ok(UnsignedShort(UnsignedShort(name) - UnsignedShort(MeshAttributeCustom)))
    ELSE Fail("Trade::meshAttributeCustom(): is not custom")

----------------------------------------------------------------------------
(* Bounds of the inputs the callers below draw from. *)

MaxFormatValue == 54

MaxRawValue == 40

FormatInputs ==
    {U32(0, n) : n \in 0..MaxFormatValue}
        \cup {U32(1, n) : n \in {0, 1, 27, 57005, Low31Max}}

RawInputs ==
    {U32(t, l) : t \in {0, 1},
                 l \in (0..MaxRawValue) \cup {57005, Low31Max - 1, Low31Max}}

ValidGenericFormats == {U32(0, n) : n \in 1..Len(VertexFormatNames)}

NoMesh == [constructed |-> FALSE]

Init ==
    /\ data = NoMesh
    /\ call = [op |-> "none"]

----------------------------------------------------------------------------
(* Callers of the format metadata functions: one call on inputs drawn from
   the sets above, or a call followed by the call that undoes it. *)

QueryVertexFormat ==
    /\ call.op = "none"
    /\ \E format \in FormatInputs :
          call' = [op |-> "query", format |-> format,
                   size |-> vertexFormatSize(format),
                   componentCount |-> vertexFormatComponentCount(format),
                   componentFormat |-> vertexFormatComponentFormat(format),
                   normalized |-> isVertexFormatNormalized(format)]
    /\ UNCHANGED data

(* vertexFormat() called with the three parts a preceding query returned *)
ReassembleVertexFormat ==
    /\ call.op = "query"
    /\ call.componentFormat.ok /\ call.componentCount.ok /\ call.normalized.ok
    /\ call' = [op |-> "reassemble", origin |-> call.format,
                result |-> vertexFormat(call.componentFormat.value,
                                        call.componentCount.value,
                                        call.normalized.value)]
    /\ UNCHANGED data

AssembleVertexFormat ==
    /\ call.op = "none"
    /\ \E format \in FormatInputs, componentCount \in 0..5, normalized \in BOOLEAN :
          call' = [op |-> "vertexFormat", format |-> format,
                   componentCount |-> componentCount, normalized |-> normalized,
                   result |-> vertexFormat(format, componentCount, normalized)]
    /\ UNCHANGED data

WrapVertexFormat ==
    /\ call.op = "none"
    /\ \E implementationSpecific \in RawInputs :
          call' = [op |-> "vertexFormatWrap", raw |-> implementationSpecific,
                   result |-> vertexFormatWrap(implementationSpecific)]
    /\ UNCHANGED data

UnwrapVertexFormat ==
    /\ call.op = "none"
    /\ \E format \in FormatInputs \cup RawInputs :
          call' = [op |-> "vertexFormatUnwrap", format |-> format,
                   result |-> vertexFormatUnwrap(format)]
    /\ UNCHANGED data

(* vertexFormatUnwrap() called on what a preceding vertexFormatWrap() returned *)
UnwrapWrapped ==
    /\ call.op = "vertexFormatWrap"
    /\ call.result.ok
    /\ call' = [op |-> "unwrapWrapped", origin |-> call.raw,
                format |-> call.result.value,
                result |-> vertexFormatUnwrap(call.result.value)]
    /\ UNCHANGED data

NextFormat ==
    \/ QueryVertexFormat
    \/ ReassembleVertexFormat
    \/ AssembleVertexFormat
    \/ WrapVertexFormat
    \/ UnwrapVertexFormat
    \/ UnwrapWrapped

SpecFormat == Init /\ [][NextFormat]_vars

----------------------------------------------------------------------------
(* Callers of the attribute name functions. *)

MakeCustomAttribute ==
    /\ call.op = "none"
    /\ \E id \in 0..UnsignedShortMax :
          call' = [op |-> "meshAttributeCustom", id |-> id,
                   result |-> meshAttributeCustom(id)]
    /\ UNCHANGED data

(* meshAttributeCustom(MeshAttribute) called on what a preceding
   meshAttributeCustom(UnsignedShort) returned *)
CustomAttributeRoundtrip ==
    /\ call.op = "meshAttributeCustom"
    /\ call.result.ok
    /\ call' = [op |-> "customRoundtrip", origin |-> call.id,
                name |-> call.result.value,
                isCustom |-> isMeshAttributeCustom(call.result.value),
                result |-> meshAttributeCustomId(call.result.value)]
    /\ UNCHANGED data

QueryAttributeName ==
    /\ call.op = "none"
    /\ \E name \in 0..UnsignedShortMax :
          call' = [op |-> "queryName", name |-> name,
                   isCustom |-> isMeshAttributeCustom(name),
                   result |-> meshAttributeCustomId(name)]
    /\ UNCHANGED data

NextName ==
    \/ MakeCustomAttribute
    \/ CustomAttributeRoundtrip
    \/ QueryAttributeName

SpecName == Init /\ [][NextName]_vars

----------------------------------------------------------------------------
(* Memory.  An address is a natural number below AddressSpace and 0 is     *)
(* nullptr; pointer arithmetic and std::size_t differences wrap around at  *)
(* AddressSpace.  The caller keeps an index array at IndexBase, a vertex   *)
(* array at VertexBase and an unrelated array at ForeignBase.              *)

AddressSpace == 64

IndexBase == 8

IndexDataSize == 4

ForeignBase == 24

VertexBase == 32

VertexDataSize == 4

PointerAdd(pointer, n) == (pointer + n) % AddressSpace

PointerDifference(a, b) == (a - b) % AddressSpace

(* the byte stored at an address; no two addresses hold the same byte *)
MemoryByte(address) == (address * 37 + 11) % 256

(* Containers::ArrayView / Containers::Array<char>: begin and size *)
ArrayView(pointer, size) == [data |-> pointer, size |-> size]

NullView == ArrayView(0, 0)

Containers_StridedArrayView1D(pointer, size, stride) ==
    [data |-> pointer, size |-> size, stride |-> stride]

(* the bytes a view spans, first to last *)
Bytes(view) == [i \in 1..view.size |-> MemoryByte(PointerAdd(view.data, i - 1))]

(* begin >= array.begin() && end <= array.end() *)
RangeContained(begin, end, array) ==
    begin >= array.data /\ end <= array.data + array.size

----------------------------------------------------------------------------
(* enum class MeshIndexType and MeshIndexData. *)

MeshIndexTypeNames == << "UnsignedByte", "UnsignedShort", "UnsignedInt" >>

MeshIndexType(name) ==
    CHOOSE i \in 1..Len(MeshIndexTypeNames) : MeshIndexTypeNames[i] = name

MeshIndexTypeNone == 0

meshIndexTypeSize(type) ==
    CASE type = MeshIndexType("UnsignedByte") -> Ok(1)
      [] type = MeshIndexType("UnsignedShort") -> Ok(2)
      [] type = MeshIndexType("UnsignedInt") -> Ok(4)
      [] OTHER -> Fail("meshIndexTypeSize(): invalid type")

(* MeshIndexData(std::nullptr_t) that sets a type *)
MeshIndexDataNoneTyped == [type |-> MeshIndexType("UnsignedByte"), data |-> NullView]

(* MeshIndexData(std::nullptr_t) *)
MeshIndexDataNone == [type |-> MeshIndexTypeNone, data |-> NullView]

(* MeshIndexData(ArrayView<const T>) that drops the size of the view *)
MeshIndexDataZeroSized(T, pointer, size) ==
    [type |-> MeshIndexType(T), data |-> ArrayView(pointer, 0)]

(* MeshIndexData(ArrayView<const T>) for T one of the three index types:
   the view of size elements is stored as a view of bytes *)
MeshIndexDataTyped(T, pointer, size) ==
    [type |-> MeshIndexType(T),
     data |-> ArrayView(pointer, size * meshIndexTypeSize(MeshIndexType(T)).value)]

----------------------------------------------------------------------------
(* MeshAttributeData. *)

(* UnsignedInt(x) of a signed x that fits 32 bits *)
UnsignedIntOf(x) == IF x >= 0 THEN U32(0, x) ELSE U32(1, (x + Low31Max) + 1)

(* x & 0xffff8000 *)
U32AndStrideMask(x) == U32(x.top, (x.low \div 32768) * 32768)

(* Short(x) *)
Short(x) == ((x + 32768) % 65536) - 32768

(* Implementation::vertexFormatFor<T>() *)
vertexFormatFor(T) ==
    CASE T = "Color3" -> VertexFormat("Vector3")
      [] T = "Color3h" -> VertexFormat("Vector3h")
      [] T = "Color3ub" -> VertexFormat("Vector3ubNormalized")
      [] T = "Color3us" -> VertexFormat("Vector3usNormalized")
      [] T = "Color4" -> VertexFormat("Vector4")
      [] T = "Color4h" -> VertexFormat("Vector4h")
      [] T = "Color4ub" -> VertexFormat("Vector4ubNormalized")
      [] T = "Color4us" -> VertexFormat("Vector4usNormalized")
      [] OTHER -> VertexFormat(T)

(* the types for which isVertexFormatCompatible<T>() is specialized *)
PackedTypes ==
    { "UnsignedByte", "Byte", "UnsignedShort", "Short",
      "Vector2ub", "Vector2b", "Vector2us", "Vector2s",
      "Vector3ub", "Vector3b", "Vector3us", "Vector3s",
      "Vector4ub", "Vector4b", "Vector4us", "Vector4s" }

(* isVertexFormatCompatible<T>() without the specializations *)
isVertexFormatCompatibleExact(T, format) == vertexFormatFor(T) = format

(* Implementation::isVertexFormatCompatible<T>(format) *)
isVertexFormatCompatible(T, format) ==
    IF T \in PackedTypes
    THEN format = VertexFormat(T) \/ format = VertexFormat(T \o "Normalized")
    ELSE vertexFormatFor(T) = format

PositionFormats ==
    { VertexFormat(n) : n \in
        { "Vector2", "Vector2h", "Vector2ub", "Vector2ubNormalized",
          "Vector2b", "Vector2bNormalized", "Vector2us", "Vector2usNormalized",
          "Vector2s", "Vector2sNormalized",
          "Vector3", "Vector3h", "Vector3ub", "Vector3ubNormalized",
          "Vector3b", "Vector3bNormalized", "Vector3us", "Vector3usNormalized",
          "Vector3s", "Vector3sNormalized" } }

NormalFormats ==
    { VertexFormat(n) : n \in
        { "Vector3", "Vector3h", "Vector3bNormalized", "Vector3sNormalized" } }

ColorFormats ==
    { VertexFormat(n) : n \in
        { "Vector3", "Vector3h", "Vector3ubNormalized", "Vector3usNormalized",
          "Vector4", "Vector4h", "Vector4ubNormalized", "Vector4usNormalized" } }

TextureCoordinatesFormats ==
    { VertexFormat(n) : n \in
        { "Vector2", "Vector2h", "Vector2ub", "Vector2ubNormalized",
          "Vector2b", "Vector2bNormalized", "Vector2us", "Vector2usNormalized",
          "Vector2s", "Vector2sNormalized" } }

(* isVertexFormatCompatibleWithAttribute() that takes colors for positions *)
isVertexFormatCompatibleWithAttributeColorAsPosition(name, format) ==
    \/ isVertexFormatImplementationSpecific(format)
    \/ (name = MeshAttributePosition /\ format \in PositionFormats)
    \/ (name = MeshAttributeNormal /\ format \in NormalFormats)
    \/ (name = MeshAttributeColor /\ format \in PositionFormats)
    \/ (name = MeshAttributeTextureCoordinates
          /\ format \in TextureCoordinatesFormats)
    \/ isMeshAttributeCustom(name)

(* Implementation::isVertexFormatCompatibleWithAttribute() *)
isVertexFormatCompatibleWithAttribute(name, format) ==
    \/ isVertexFormatImplementationSpecific(format)
    \/ (name = MeshAttributePosition /\ format \in PositionFormats)
    \/ (name = MeshAttributeNormal /\ format \in NormalFormats)
    \/ (name = MeshAttributeColor /\ format \in ColorFormats)
    \/ (name = MeshAttributeTextureCoordinates
          /\ format \in TextureCoordinatesFormats)
    \/ isMeshAttributeCustom(name)

(* isAttributeArrayAllowed() that allows an array of any name *)
isAttributeArrayAllowedAlways(name) == TRUE

(* Implementation::isAttributeArrayAllowed() *)
isAttributeArrayAllowed(name) == isMeshAttributeCustom(name)

(* a default constructor that would leave a one-byte format behind *)
MeshAttributeDataDefaultFormatted ==
    [data |-> 0, vertexCount |-> 0, format |-> U32(0, 1), stride |-> 0,
     name |-> 0, arraySize |-> 0, isOffsetOnly |-> FALSE]

(* MeshAttributeData(): the default constructor *)
MeshAttributeDataDefault ==
    [data |-> 0, vertexCount |-> 0, format |-> VertexFormatNone, stride |-> 0,
     name |-> 0, arraySize |-> 0, isOffsetOnly |-> FALSE]

(* the members every constructor that takes a name and a format sets, after
   the four assertions of its member initializers, in their order; data is
   the pointer or the offset, both stored in the same union *)
MeshAttributeDataMembers(name, format, arraySize, pointerOrOffset, vertexCount, stride, isOffsetOnly) ==
    IF U32NonZero(U32AndStrideMask(UnsignedIntOf(stride)))
    THEN Fail("Trade::MeshAttributeData: expected stride to be positive and at most 32k")
    ELSE IF ~isVertexFormatCompatibleWithAttribute(name, format)
    THEN Fail("Trade::MeshAttributeData: not a valid format for the name")
    ELSE IF ~(arraySize = 0 \/ isAttributeArrayAllowed(name))
    THEN Fail("Trade::MeshAttributeData: the name can't be an array attribute")
    ELSE IF ~(arraySize = 0 \/ ~isVertexFormatImplementationSpecific(format))
    THEN Fail("Trade::MeshAttributeData: array attributes can't have an implementation-specific format")
    ELSE Ok([data |-> pointerOrOffset, vertexCount |-> vertexCount,
             format |-> format, stride |-> Short(stride), name |-> name,
             arraySize |-> arraySize, isOffsetOnly |-> isOffsetOnly])

(* the constructor below, storing a vertex count of at most one *)
MeshAttributeDataCountOfFirst(name, format, arraySize, view) ==
    MeshAttributeDataMembers(name, format, arraySize, view.data,
                             IF view.size = 0 THEN 0 ELSE 1, view.stride, FALSE)

(* the private MeshAttributeData(name, format, arraySize, data, nullptr) *)
MeshAttributeDataView(name, format, arraySize, view) ==
    MeshAttributeDataMembers(name, format, arraySize, view.data, view.size,
                             view.stride, FALSE)

(* MeshAttributeData(name, StridedArrayView1D<T>) *)
MeshAttributeDataTyped(name, T, view) ==
    MeshAttributeDataView(name, vertexFormatFor(T), 0, view)

(* MeshAttributeData(name, format, nullptr) *)
MeshAttributeDataNull(name, format) ==
    MeshAttributeDataView(name, format, 0, Containers_StridedArrayView1D(0, 0, 0))

(* MeshAttributeData(name, format, offset, vertexCount, stride, arraySize) *)
MeshAttributeDataOffsetOnly(name, format, offset, vertexCount, stride, arraySize) ==
    MeshAttributeDataMembers(name, format, arraySize, offset, vertexCount,
                             stride, TRUE)

(* MeshAttributeData(name, format, arraySize, StridedArrayView1D<const void>):
   the members as above, then the stride is expected to fit one element *)
MeshAttributeDataTypeErased(name, format, arraySize, view) ==
    LET members == MeshAttributeDataView(name, format, arraySize, view)
        size == vertexFormatSize(format)
    IN IF ~members.ok THEN members
       ELSE IF isVertexFormatImplementationSpecific(format) THEN members
       ELSE IF ~size.ok THEN size
       ELSE IF ~(size.value * (IF arraySize # 0 THEN arraySize ELSE 1) <= view.stride)
       THEN Fail("Trade::MeshAttributeData: expected stride to be positive and enough to fit the format")
       ELSE members

(* a padding constructor that would take the same range on both sides *)
MeshAttributeDataPaddingSymmetric(padding) ==
    IF ~(padding >= -32767 /\ padding <= 32767)
    THEN Fail("Trade::MeshAttributeData: at most 32k padding supported")
    ELSE Ok([data |-> 0, vertexCount |-> 0, format |-> VertexFormatNone,
             stride |-> Short(padding), name |-> 0, arraySize |-> 0,
             isOffsetOnly |-> FALSE])

(* MeshAttributeData(Int padding) *)
MeshAttributeDataPadding(padding) ==
    IF ~(padding >= -32768 /\ padding <= 32767)
    THEN Fail("Trade::MeshAttributeData: at most 32k padding supported")
    ELSE Ok([data |-> 0, vertexCount |-> 0, format |-> VertexFormatNone,
             stride |-> Short(padding), name |-> 0, arraySize |-> 0,
             isOffsetOnly |-> FALSE])

(* MeshAttributeData::data() const *)
MeshAttributeData_data(attribute) ==
    IF attribute.isOffsetOnly
    THEN Fail("Trade::MeshAttributeData::data(): the attribute is a relative offset, supply a data array")
    ELSE Ok(Containers_StridedArrayView1D(attribute.data, attribute.vertexCount,
                                          attribute.stride))

(* data(vertexData) that would hand back the beginning of the vertex data *)
MeshAttributeData_dataAtBeginning(attribute, vertexData) ==
    IF ~attribute.isOffsetOnly
    THEN Fail("Trade::MeshAttributeData::data(): the attribute is not a relative offset, can't supply a data array")
    ELSE Ok(Containers_StridedArrayView1D(vertexData.data, attribute.vertexCount,
                                          attribute.stride))

(* MeshAttributeData::data(vertexData) const *)
MeshAttributeData_dataAt(attribute, vertexData) ==
    IF ~attribute.isOffsetOnly
    THEN Fail("Trade::MeshAttributeData::data(): the attribute is not a relative offset, can't supply a data array")
    ELSE Ok(Containers_StridedArrayView1D(PointerAdd(vertexData.data, attribute.data),
                                          attribute.vertexCount, attribute.stride))
----------------------------------------------------------------------------
(* MeshData: construction.  DataFlags are sets of "Owned" and "Mutable".   *)

OwnedMutable == {"Owned", "Mutable"}

(* the bytes of one element: the format's size times the array size, and 0
   for an implementation-specific format *)
AttributeTypeSize(attribute) ==
    IF isVertexFormatImplementationSpecific(attribute.format) THEN Ok(0)
    ELSE LET size == vertexFormatSize(attribute.format)
         IN IF ~size.ok THEN size
            ELSE Ok(size.value * (IF attribute.arraySize # 0
                                  THEN attribute.arraySize ELSE 1))

(* where the first element of an attribute is: the stored pointer, or the
   stored offset from the beginning of the vertex data *)
AttributePointer(vertexData, attribute) ==
    IF attribute.isOffsetOnly
    THEN PointerAdd(vertexData.data, attribute.data)
    ELSE attribute.data

(* the first attribute, from the i-th on, that breaks a constructor
   precondition, with what the message reports; text is "none" if none does *)
RECURSIVE AttributeViolation(_, _, _, _)
AttributeViolation(attributes, count, vertexData, i) ==
    IF i > Len(attributes) THEN [text |-> "none"]
    ELSE LET attribute == attributes[i]
             typeSize == AttributeTypeSize(attribute)
             begin == AttributePointer(vertexData, attribute)
             end == begin + (count - 1) * attribute.stride + typeSize.value
         IN IF attribute.format = VertexFormatNone
            THEN [text |-> "Trade::MeshData: attribute doesn't specify anything",
                  attribute |-> i - 1]
            ELSE IF attribute.vertexCount # count
            THEN [text |-> "Trade::MeshData: attribute has a different vertex count than expected",
                  attribute |-> i - 1, vertices |-> attribute.vertexCount,
                  expected |-> count]
            ELSE IF ~typeSize.ok THEN [text |-> typeSize.message]
            ELSE IF count # 0 /\ ~RangeContained(begin, end, vertexData)
            THEN [text |-> "Trade::MeshData: attribute is not contained in passed vertexData array",
                  attribute |-> i - 1, begin |-> begin, end |-> end,
                  dataBegin |-> vertexData.data,
                  dataEnd |-> vertexData.data + vertexData.size]
            ELSE AttributeViolation(attributes, count, vertexData, i + 1)

(* MeshData(primitive, Array&& indexData, indices, Array&& vertexData,
   Array&& attributes): the constructor all the others delegate to *)
MeshData(primitive, indexData, indices, vertexData, attributes) ==
    LET count == IF Len(attributes) = 0 THEN 0 ELSE attributes[1].vertexCount
        violation == AttributeViolation(attributes, count, vertexData, 1)
    IN IF Len(attributes) = 0 /\ indices.type = MeshIndexTypeNone
       THEN Fail([text |-> "Trade::MeshData: indices are expected to be valid if there are no attributes and vertex count isn't passed explicitly"])
       ELSE IF indices.type = MeshIndexTypeNone /\ indexData.size # 0
       THEN Fail([text |-> "Trade::MeshData: indexData passed for a non-indexed mesh"])
       ELSE IF indices.type # MeshIndexTypeNone
               /\ ~RangeContained(indices.data.data,
                                  indices.data.data + indices.data.size, indexData)
       THEN Fail([text |-> "Trade::MeshData: indices are not contained in passed indexData array",
                  begin |-> indices.data.data,
                  end |-> indices.data.data + indices.data.size,
                  dataBegin |-> indexData.data,
                  dataEnd |-> indexData.data + indexData.size])
       ELSE IF violation.text # "none" THEN Fail(violation)
       ELSE Ok([constructed |-> TRUE, vertexCount |-> count,
                indexType |-> indices.type, primitive |-> primitive,
                indexDataFlags |-> OwnedMutable, vertexDataFlags |-> OwnedMutable,
                indexData |-> indexData, vertexData |-> vertexData,
                attributes |-> attributes, indices |-> indices.data])

(* MeshData(primitive, indexDataFlags, ArrayView indexData, indices,
   vertexDataFlags, ArrayView vertexData, Array&& attributes): the buffers
   stay the caller's *)
MeshDataNotOwned(primitive, indexDataFlags, indexData, indices, vertexDataFlags, vertexData, attributes) ==
    LET mesh == MeshData(primitive, indexData, indices, vertexData, attributes)
    IN IF ~mesh.ok THEN mesh
       ELSE IF "Owned" \in indexDataFlags
       THEN Fail([text |-> "Trade::MeshData: can't construct with non-owned index data but Trade::DataFlag::Owned"])
       ELSE IF "Owned" \in vertexDataFlags
       THEN Fail([text |-> "Trade::MeshData: can't construct with non-owned vertex data but Trade::DataFlag::Owned"])
       ELSE Ok([mesh.value EXCEPT !.indexDataFlags = indexDataFlags,
                                  !.vertexDataFlags = vertexDataFlags])

(* MeshData(primitive, indexDataFlags, ArrayView indexData, indices,
   Array&& vertexData, Array&& attributes): only the index data stays the
   caller's *)
MeshDataIndicesNotOwned(primitive, indexDataFlags, indexData, indices, vertexData, attributes) ==
    LET mesh == MeshData(primitive, indexData, indices, vertexData, attributes)
    IN IF ~mesh.ok THEN mesh
       ELSE IF "Owned" \in indexDataFlags
       THEN Fail([text |-> "Trade::MeshData: can't construct with non-owned index data but Trade::DataFlag::Owned"])
       ELSE Ok([mesh.value EXCEPT !.indexDataFlags = indexDataFlags])

(* MeshData(primitive, Array&& indexData, indices, vertexDataFlags,
   ArrayView vertexData, Array&& attributes): only the vertex data stays the
   caller's *)
MeshDataVerticesNotOwned(primitive, indexData, indices, vertexDataFlags, vertexData, attributes) ==
    LET mesh == MeshData(primitive, indexData, indices, vertexData, attributes)
    IN IF ~mesh.ok THEN mesh
       ELSE IF "Owned" \in vertexDataFlags
       THEN Fail([text |-> "Trade::MeshData: can't construct with non-owned vertex data but Trade::DataFlag::Owned"])
       ELSE Ok([mesh.value EXCEPT !.vertexDataFlags = vertexDataFlags])

(* MeshData(primitive, vertexDataFlags, ArrayView vertexData,
   Array&& attributes): no indices *)
MeshDataIndexlessNotOwned(primitive, vertexDataFlags, vertexData, attributes) ==
    MeshDataVerticesNotOwned(primitive, NullView, MeshIndexDataNone,
                             vertexDataFlags, vertexData, attributes)

(* MeshData(primitive, indexDataFlags, ArrayView indexData, indices): no
   attributes *)
MeshDataAttributelessNotOwned(primitive, indexDataFlags, indexData, indices) ==
    MeshDataIndicesNotOwned(primitive, indexDataFlags, indexData, indices,
                            NullView, << >>)

(* MeshData(primitive, vertexCount): no indices, no attributes *)
MeshDataVertexCount(primitive, count) ==
    Ok([constructed |-> TRUE, vertexCount |-> count,
        indexType |-> MeshIndexTypeNone, primitive |-> primitive,
        indexDataFlags |-> OwnedMutable, vertexDataFlags |-> OwnedMutable,
        indexData |-> NullView, vertexData |-> NullView,
        attributes |-> << >>, indices |-> NullView])

----------------------------------------------------------------------------
(* MeshData: inline accessors. *)

(* indexDataFlags() of a mesh that takes every index data for its own *)
MeshData_indexDataFlagsOwned(mesh) == OwnedMutable

MeshData_indexDataFlags(mesh) == mesh.indexDataFlags

MeshData_vertexDataFlags(mesh) == mesh.vertexDataFlags

MeshData_primitive(mesh) == mesh.primitive

MeshData_indexData(mesh) == mesh.indexData

MeshData_attributeData(mesh) == mesh.attributes

MeshData_vertexData(mesh) == mesh.vertexData

(* isIndexed() that asks whether there are index bytes *)
MeshData_isIndexedBySize(mesh) == mesh.indexData.size # 0

MeshData_isIndexed(mesh) == mesh.indexType # MeshIndexTypeNone

(* vertexCount() that returns the size of the attribute array *)
MeshData_vertexCountIsAttributeCount(mesh) == Len(mesh.attributes)

(* vertexCount() that reads the first attribute instead of the member *)
MeshData_vertexCountOfFirst(mesh) ==
    IF Len(mesh.attributes) = 0 THEN mesh.vertexCount
    ELSE mesh.attributes[1].vertexCount

(* vertexCount() that would count the indices of a mesh without attributes *)
MeshData_vertexCountOfIndices(mesh) ==
    IF Len(mesh.attributes) = 0 /\ mesh.indexType # MeshIndexTypeNone
    THEN mesh.indices.size \div meshIndexTypeSize(mesh.indexType).value
    ELSE mesh.vertexCount

MeshData_vertexCount(mesh) == mesh.vertexCount

(* attributeCount() that returns the vertex count *)
MeshData_attributeCountIsVertexCount(mesh) == mesh.vertexCount

MeshData_attributeCount(mesh) == Len(mesh.attributes)

----------------------------------------------------------------------------
(* MeshData: index access. *)

MeshData_mutableIndexData(mesh) ==
    IF "Mutable" \notin mesh.indexDataFlags
    THEN Fail("Trade::MeshData::mutableIndexData(): index data not mutable")
    ELSE Ok(mesh.indexData)

(* indexCount() that would count the bytes of the indices *)
MeshData_indexCountInBytes(mesh) ==
    IF ~MeshData_isIndexed(mesh)
    THEN Fail("Trade::MeshData::indexCount(): the mesh is not indexed")
    ELSE Ok(mesh.indices.size)

MeshData_indexCount(mesh) ==
    IF ~MeshData_isIndexed(mesh)
    THEN Fail("Trade::MeshData::indexCount(): the mesh is not indexed")
    ELSE Ok(mesh.indices.size \div meshIndexTypeSize(mesh.indexType).value)

MeshData_indexType(mesh) ==
    IF ~MeshData_isIndexed(mesh)
    THEN Fail("Trade::MeshData::indexType(): the mesh is not indexed")
    ELSE Ok(mesh.indexType)

MeshData_indexOffset(mesh) ==
    IF ~MeshData_isIndexed(mesh)
    THEN Fail("Trade::MeshData::indexOffset(): the mesh is not indexed")
    ELSE Ok(PointerDifference(mesh.indices.data, mesh.indexData.data))

(* the StridedArrayView2D<const char> of the indices: one row an index *)
IndicesView(mesh) ==
    LET typeSize == meshIndexTypeSize(mesh.indexType).value
    IN [data |-> mesh.indices.data,
        size |-> << mesh.indices.size \div typeSize, typeSize >>,
        stride |-> << typeSize, 1 >>]

MeshData_indices(mesh) ==
    IF ~MeshData_isIndexed(mesh)
    THEN Fail("Trade::MeshData::indices(): the mesh is not indexed")
    ELSE Ok(IndicesView(mesh))

MeshData_mutableIndices(mesh) ==
    IF "Mutable" \notin mesh.indexDataFlags
    THEN Fail("Trade::MeshData::mutableIndices(): index data not mutable")
    ELSE IF ~MeshData_isIndexed(mesh)
    THEN Fail("Trade::MeshData::mutableIndices(): the mesh is not indexed")
    ELSE Ok(IndicesView(mesh))

(* Implementation::meshIndexTypeFor<T>() *)
meshIndexTypeFor(T) == MeshIndexType(T)

(* Containers::arrayCast<1, T>(view).asContiguous() of a view of rows *)
ArrayCastContiguous(view) == ArrayView(view.data, view.size[1])

(* indices<T>() *)
MeshData_indicesTyped(mesh, T) ==
    LET view == MeshData_indices(mesh)
    IN IF ~view.ok THEN view
       ELSE IF meshIndexTypeFor(T) # mesh.indexType
       THEN Fail("Trade::MeshData::indices(): improper type requested")
       ELSE Ok(ArrayCastContiguous(view.value))

(* mutableIndices<T>() that goes through indices() *)
MeshData_mutableIndicesTypedUngated(mesh, T) ==
    LET view == MeshData_indices(mesh)
    IN IF ~view.ok THEN view
       ELSE IF meshIndexTypeFor(T) # mesh.indexType
       THEN Fail("Trade::MeshData::mutableIndices(): improper type requested")
       ELSE Ok(ArrayCastContiguous(view.value))

(* mutableIndices<T>() *)
MeshData_mutableIndicesTyped(mesh, T) ==
    LET view == MeshData_mutableIndices(mesh)
    IN IF ~view.ok THEN view
       ELSE IF meshIndexTypeFor(T) # mesh.indexType
       THEN Fail("Trade::MeshData::mutableIndices(): improper type requested")
       ELSE Ok(ArrayCastContiguous(view.value))

----------------------------------------------------------------------------
(* MeshData: attribute access. *)

MeshData_mutableVertexData(mesh) ==
    IF "Mutable" \notin mesh.vertexDataFlags
    THEN Fail("Trade::MeshData::mutableVertexData(): vertex data not mutable")
    ELSE Ok(mesh.vertexData)

(* attributeCount(MeshAttribute) *)
MeshData_attributeCountOf(mesh, name) ==
    Cardinality({i \in 1..Len(mesh.attributes) : mesh.attributes[i].name = name})

(* attributeFor(): the index of the id-th attribute of the name, and
   attributeCount() if there is none *)
MeshData_attributeFor(mesh, name, id) ==
    LET found == {i \in 1..Len(mesh.attributes) :
                    /\ mesh.attributes[i].name = name
                    /\ Cardinality({j \in 1..(i - 1) :
                                      mesh.attributes[j].name = name}) = id}
    IN IF found = {} THEN Len(mesh.attributes)
       ELSE (CHOOSE i \in found : TRUE) - 1

MeshData_attributeOffset(mesh, id) ==
    IF id >= Len(mesh.attributes)
    THEN Fail("Trade::MeshData::attributeOffset(): index out of range")
    ELSE LET attribute == mesh.attributes[id + 1]
         IN Ok(IF attribute.isOffsetOnly THEN attribute.data
               ELSE PointerDifference(attribute.data, mesh.vertexData.data))

(* attributeDataViewInternal() with the second dimension of attribute():
   as many rows as the mesh has vertices, one row an element *)
AttributeView(mesh, attribute) ==
    [data |-> AttributePointer(mesh.vertexData, attribute),
     size |-> << mesh.vertexCount, AttributeTypeSize(attribute).value >>,
     stride |-> << attribute.stride, 1 >>]

MeshData_attribute(mesh, id) ==
    IF id >= Len(mesh.attributes)
    THEN Fail("Trade::MeshData::attribute(): index out of range")
    ELSE Ok(AttributeView(mesh, mesh.attributes[id + 1]))

MeshData_mutableAttribute(mesh, id) ==
    IF "Mutable" \notin mesh.vertexDataFlags
    THEN Fail("Trade::MeshData::mutableAttribute(): vertex data not mutable")
    ELSE IF id >= Len(mesh.attributes)
    THEN Fail("Trade::MeshData::mutableAttribute(): index out of range")
    ELSE Ok(AttributeView(mesh, mesh.attributes[id + 1]))

(* attribute(MeshAttribute, UnsignedInt) *)
MeshData_attributeNamed(mesh, name, id) ==
    LET attributeId == MeshData_attributeFor(mesh, name, id)
    IN IF attributeId = Len(mesh.attributes)
       THEN Fail("Trade::MeshData::attribute(): index out of range for the name")
       ELSE MeshData_attribute(mesh, attributeId)

(* mutableAttribute(MeshAttribute, UnsignedInt) *)
MeshData_mutableAttributeNamed(mesh, name, id) ==
    IF "Mutable" \notin mesh.vertexDataFlags
    THEN Fail("Trade::MeshData::mutableAttribute(): vertex data not mutable")
    ELSE LET attributeId == MeshData_attributeFor(mesh, name, id)
         IN IF attributeId = Len(mesh.attributes)
            THEN Fail("Trade::MeshData::mutableAttribute(): index out of range for the name")
            ELSE MeshData_mutableAttribute(mesh, attributeId)

(* checkAttributeTypeCompatibility<T>(); isArray is std::is_array<T> *)
checkAttributeTypeCompatibility(T, isArray, attribute) ==
    IF isVertexFormatImplementationSpecific(attribute.format)
    THEN Fail("can't cast data from an implementation-specific vertex format")
    ELSE IF ~isVertexFormatCompatible(T, attribute.format)
    THEN Fail("improper type requested")
    ELSE IF isArray # (attribute.arraySize # 0)
    THEN Fail("use T[] to access an array attribute")
    ELSE Ok(TRUE)

(* Containers::arrayCast<1, T>(view) of a view of rows *)
ArrayCast(view) ==
    Containers_StridedArrayView1D(view.data, view.size[1], view.stride[1])

(* the typed accessor made of an untyped one: its view, then the type check *)
TypedAttribute(mesh, T, view, attributeId) ==
    IF ~view.ok THEN view
    ELSE LET compatible ==
                 checkAttributeTypeCompatibility(T, FALSE,
                                                 mesh.attributes[attributeId + 1])
         IN IF ~compatible.ok THEN compatible ELSE Ok(ArrayCast(view.value))

(* attribute<T>(UnsignedInt) *)
MeshData_attributeTyped(mesh, T, id) ==
    TypedAttribute(mesh, T, MeshData_attribute(mesh, id), id)

(* mutableAttribute<T>(UnsignedInt) *)
MeshData_mutableAttributeTyped(mesh, T, id) ==
    TypedAttribute(mesh, T, MeshData_mutableAttribute(mesh, id), id)

(* attribute<T>(MeshAttribute, UnsignedInt) *)
MeshData_attributeNamedTyped(mesh, T, name, id) ==
    TypedAttribute(mesh, T, MeshData_attributeNamed(mesh, name, id),
                   MeshData_attributeFor(mesh, name, id))

(* mutableAttribute<T>(MeshAttribute, UnsignedInt) *)
MeshData_mutableAttributeNamedTyped(mesh, T, name, id) ==
    TypedAttribute(mesh, T, MeshData_mutableAttributeNamed(mesh, name, id),
                   MeshData_attributeFor(mesh, name, id))

(* Containers::arrayCast<2, T>(view) of a view of rows: one row an element,
   made of items of the size of T *)
ArrayCast2D(view, T) ==
    LET typeSize == vertexFormatSize(vertexFormatFor(T)).value
    IN [data |-> view.data,
        size |-> << view.size[1], view.size[2] \div typeSize >>,
        stride |-> << view.stride[1], typeSize >>]

(* the accessor of T[] made of an untyped one *)
TypedArrayAttribute(mesh, T, view, attributeId) ==
    IF ~view.ok THEN view
    ELSE LET compatible ==
                 checkAttributeTypeCompatibility(T, TRUE,
                                                 mesh.attributes[attributeId + 1])
         IN IF ~compatible.ok THEN compatible ELSE Ok(ArrayCast2D(view.value, T))

(* attribute<T[]>(UnsignedInt) *)
MeshData_attributeArrayTyped(mesh, T, id) ==
    TypedArrayAttribute(mesh, T, MeshData_attribute(mesh, id), id)

(* mutableAttribute<T[]>(UnsignedInt) *)
MeshData_mutableAttributeArrayTyped(mesh, T, id) ==
    TypedArrayAttribute(mesh, T, MeshData_mutableAttribute(mesh, id), id)

(* hasAttribute() that asks whether there is any attribute at all *)
MeshData_hasAttributeAny(mesh, name) == Len(mesh.attributes) # 0

(* hasAttribute(): the count converted to bool *)
MeshData_hasAttribute(mesh, name) == MeshData_attributeCountOf(mesh, name) # 0

(* attributeId(MeshAttribute, UnsignedInt) *)
MeshData_attributeId(mesh, name, id) ==
    IF id >= MeshData_attributeCountOf(mesh, name)
    THEN Fail("Trade::MeshData::attributeId(): index out of range for the name")
    ELSE Ok(MeshData_attributeFor(mesh, name, id))

----------------------------------------------------------------------------
(* MeshData: releasing the storage.  Each gives the released array and the
   mesh it leaves. *)

(* releaseIndexData() that would leave a mesh without indices behind *)
MeshData_releaseIndexDataUnindexed(mesh) ==
    [released |-> mesh.indexData,
     mesh |-> [mesh EXCEPT !.indexData = ArrayView(mesh.indexData.data, 0),
                           !.indices = ArrayView(mesh.indices.data, 0),
                           !.indexType = MeshIndexTypeNone]]

MeshData_releaseIndexData(mesh) ==
    [released |-> mesh.indexData,
     mesh |-> [mesh EXCEPT !.indexData = ArrayView(mesh.indexData.data, 0),
                           !.indices = ArrayView(mesh.indices.data, 0)]]

MeshData_releaseAttributeData(mesh) ==
    [released |-> mesh.attributes,
     mesh |-> [mesh EXCEPT !.attributes = << >>]]

MeshData_releaseVertexData(mesh) ==
    [released |-> mesh.vertexData,
     mesh |-> [mesh EXCEPT !.vertexCount = 0,
                           !.vertexData = ArrayView(mesh.vertexData.data, 0)]]

----------------------------------------------------------------------------
(* What the callers of MeshData pass.  An argument records the constructor
   expression the caller wrote; the descriptor is what that constructor
   makes of it. *)

MaxAttributes == 2

MaxVertexCount == 2

MaxIndexCount == 2

Primitives == {"Triangles"}

DataFlagsInputs == {{}, {"Mutable"}, {"Owned", "Mutable"}}

IndexBuffers == {NullView, ArrayView(IndexBase, IndexDataSize)}

VertexBuffers == {NullView, ArrayView(VertexBase, VertexDataSize)}

IndexArgument(kind, T, pointer, size) ==
    [kind |-> kind, type |-> T, data |-> pointer, size |-> size]

(* MeshIndexData{}, views of UnsignedShort from the third byte of the index
   array on, a view into the unrelated array, and an empty view *)
IndexArguments ==
    {IndexArgument("nullptr", "", 0, 0)}
        \cup {IndexArgument("typed", "UnsignedShort", IndexBase + 2, n) :
                 n \in 1..MaxIndexCount}
        \cup {IndexArgument("typed", "UnsignedByte", ForeignBase, 1),
              IndexArgument("typed", "UnsignedInt", 0, 0)}

BuildIndices(a) ==
    IF a.kind = "nullptr" THEN MeshIndexDataNone
    ELSE MeshIndexDataTyped(a.type, a.data, a.size)

AttributeArgument(kind, name, T, format, pointerOrOffset, size, stride) ==
    [kind |-> kind, name |-> name, type |-> T, format |-> format,
     data |-> pointerOrOffset, size |-> size, stride |-> stride]

(* positions of two bytes, tightly packed from the beginning of the vertex
   array, and two of them from its third byte; a custom one-byte attribute
   interleaved with them, as a view and as an offset; positions without
   data; positions in the unrelated array; an implementation-specific
   format; and the two descriptors that name nothing *)
AttributeArguments ==
    {AttributeArgument("view", MeshAttributePosition, "Vector2ub", VertexFormatNone,
                       VertexBase, n, 2) : n \in 1..MaxVertexCount}
        \cup {AttributeArgument("offset", MeshAttributeCustom, "",
                                VertexFormat("UnsignedByte"), 3, n, 2) :
                 n \in 1..MaxVertexCount}
        \cup {AttributeArgument("view", MeshAttributePosition, "Vector2ub",
                                VertexFormatNone, VertexBase + 2, 2, 2),
              AttributeArgument("view", MeshAttributeCustom, "UnsignedByte",
                                VertexFormatNone, VertexBase + 1, 2, 2),
              AttributeArgument("nullptr", MeshAttributePosition, "",
                                VertexFormat("Vector2ub"), 0, 0, 0),
              AttributeArgument("view", MeshAttributePosition, "Vector2ub",
                                VertexFormatNone, ForeignBase, 1, 2),
              AttributeArgument("offset", MeshAttributeNormal, "",
                                U32(1, 9), 0, 1, 4),
              AttributeArgument("default", 0, "", VertexFormatNone, 0, 0, 0),
              AttributeArgument("padding", 0, "", VertexFormatNone, 0, 0, -1)}

BuildAttribute(a) ==
    CASE a.kind = "view" ->
            MeshAttributeDataTyped(a.name, a.type,
                Containers_StridedArrayView1D(a.data, a.size, a.stride))
      [] a.kind = "offset" ->
            MeshAttributeDataOffsetOnly(a.name, a.format, a.data, a.size,
                                        a.stride, 0)
      [] a.kind = "nullptr" -> MeshAttributeDataNull(a.name, a.format)
      [] a.kind = "padding" -> MeshAttributeDataPadding(a.stride)
      [] OTHER -> Ok(MeshAttributeDataDefault)

(* the initializer lists the callers pass: the arguments whose descriptor
   the constructors accept, at most MaxAttributes of them *)
AttributeLists ==
    UNION {[1..n -> {a \in AttributeArguments : BuildAttribute(a).ok}] :
              n \in 0..MaxAttributes}

BuildAttributes(list) == [i \in 1..Len(list) |-> BuildAttribute(list[i]).value]

(* the arguments together with the descriptors made of them *)
IndexInputs ==
    {[arguments |-> a, indices |-> BuildIndices(a)] : a \in IndexArguments}

AttributeInputs ==
    {[arguments |-> list, attributes |-> BuildAttributes(list)] :
        list \in AttributeLists}

----------------------------------------------------------------------------
(* The operations on the mesh: it is constructed once, from what the caller
   passes, and its storage is then released piece by piece. *)

Constructed(result) == IF result.ok THEN result.value ELSE NoMesh

ConstructOwned ==
    /\ call.op = "none"
    /\ \E primitive \in Primitives, indexData \in IndexBuffers,
          indices \in IndexInputs, vertexData \in VertexBuffers,
          attributes \in AttributeInputs :
          LET result == MeshData(primitive, indexData, indices.indices,
                                 vertexData, attributes.attributes)
          IN /\ call' = [op |-> "MeshData", owned |-> TRUE, primitive |-> primitive,
                         indexDataFlags |-> OwnedMutable, indexData |-> indexData,
                         indices |-> indices.arguments,
                         vertexDataFlags |-> OwnedMutable, vertexData |-> vertexData,
                         attributes |-> attributes.arguments,
                         result |-> result]
             /\ data' = Constructed(result)

ConstructNotOwned ==
    /\ call.op = "none"
    /\ \E primitive \in Primitives,
          indexDataFlags \in DataFlagsInputs, indexData \in IndexBuffers,
          indices \in IndexInputs,
          vertexDataFlags \in DataFlagsInputs, vertexData \in VertexBuffers,
          attributes \in AttributeInputs :
          LET result == MeshDataNotOwned(primitive, indexDataFlags, indexData,
                                         indices.indices, vertexDataFlags,
                                         vertexData, attributes.attributes)
          IN /\ call' = [op |-> "MeshData", owned |-> FALSE, primitive |-> primitive,
                         indexDataFlags |-> indexDataFlags, indexData |-> indexData,
                         indices |-> indices.arguments,
                         vertexDataFlags |-> vertexDataFlags,
                         vertexData |-> vertexData,
                         attributes |-> attributes.arguments,
                         result |-> result]
             /\ data' = Constructed(result)

ConstructVertexCount ==
    /\ call.op = "none"
    /\ \E primitive \in Primitives, count \in (0..MaxVertexCount) \cup {37} :
          LET result == MeshDataVertexCount(primitive, count)
          IN /\ call' = [op |-> "MeshDataVertexCount", primitive |-> primitive,
                         count |-> count, result |-> result]
             /\ data' = Constructed(result)

ReleaseIndexData ==
    /\ data.constructed
    /\ LET release == MeshData_releaseIndexData(data)
       IN /\ call' = [op |-> "releaseIndexData", result |-> release.released]
          /\ data' = release.mesh

ReleaseAttributeData ==
    /\ data.constructed
    /\ LET release == MeshData_releaseAttributeData(data)
       IN /\ call' = [op |-> "releaseAttributeData", result |-> release.released]
          /\ data' = release.mesh

ReleaseVertexData ==
    /\ data.constructed
    /\ LET release == MeshData_releaseVertexData(data)
       IN /\ call' = [op |-> "releaseVertexData", result |-> release.released]
          /\ data' = release.mesh

(* the accessors that take no argument and expect nothing of the mesh: they
   are const, the mesh is as it was *)
ReadAccessors ==
    /\ data.constructed
    /\ \E accessor \in {"indexDataFlags", "vertexDataFlags", "primitive",
                         "isIndexed", "vertexCount", "attributeCount"} :
          call' = [op |-> "read", accessor |-> accessor,
                   result |->
                       CASE accessor = "indexDataFlags" ->
                                Ok(MeshData_indexDataFlags(data))
                         [] accessor = "vertexDataFlags" ->
                                Ok(MeshData_vertexDataFlags(data))
                         [] accessor = "primitive" -> Ok(MeshData_primitive(data))
                         [] accessor = "isIndexed" -> Ok(MeshData_isIndexed(data))
                         [] accessor = "vertexCount" ->
                                Ok(MeshData_vertexCount(data))
                         [] OTHER -> Ok(MeshData_attributeCount(data))]
    /\ UNCHANGED data

Next ==
    \/ ReadAccessors
    \/ ConstructOwned
    \/ ConstructNotOwned
    \/ ConstructVertexCount
    \/ ReleaseIndexData
    \/ ReleaseAttributeData
    \/ ReleaseVertexData

Spec == Init /\ [][Next]_vars

----------------------------------------------------------------------------
(* Callers of the MeshAttributeData constructors: one descriptor is made of
   a name, a format or an element type, an array size and a view or an
   offset. *)

MaxArraySize == 2

StrideInputs == {-16, -1, 0, 1, 2, 3, 4, 8, 12, 32767, 32768, 65000}

AttributeNameInputs ==
    {0, MeshAttributePosition, MeshAttributeNormal, MeshAttributeTextureCoordinates,
     MeshAttributeColor, 32767, MeshAttributeCustom, MeshAttributeCustom + 2}

(* the element types vertexFormatFor<T>() is specialized for *)
AttributeTypes ==
    {VertexFormatNames[i] : i \in {j \in 1..Len(VertexFormatNames) :
                                     isVertexFormatNormalized(U32(0, j)) = Ok(FALSE)}}
        \cup {"Color3", "Color3h", "Color3ub", "Color3us",
              "Color4", "Color4h", "Color4ub", "Color4us"}

AttributeCall(kind, name, T, format, arraySize, pointerOrOffset, size, stride, result) ==
    [op |-> "MeshAttributeData", kind |-> kind, name |-> name, type |-> T,
     format |-> format, arraySize |-> arraySize, data |-> pointerOrOffset,
     size |-> size, stride |-> stride, result |-> result]

ConstructAttributeTypeErased ==
    /\ call.op = "none"
    /\ \E name \in AttributeNameInputs, format \in FormatInputs,
          arraySize \in 0..MaxArraySize, size \in 0..1, stride \in StrideInputs :
          call' = AttributeCall("erased", name, "", format, arraySize, VertexBase,
                      size, stride,
                      MeshAttributeDataTypeErased(name, format, arraySize,
                          Containers_StridedArrayView1D(VertexBase, size, stride)))
    /\ UNCHANGED data

ConstructAttributeTyped ==
    /\ call.op = "none"
    /\ \E name \in AttributeNameInputs, T \in AttributeTypes,
          size \in 0..1, stride \in StrideInputs :
          call' = AttributeCall("typed", name, T, vertexFormatFor(T), 0, VertexBase,
                      size, stride,
                      MeshAttributeDataTyped(name, T,
                          Containers_StridedArrayView1D(VertexBase, size, stride)))
    /\ UNCHANGED data

ConstructAttributeOffsetOnly ==
    /\ call.op = "none"
    /\ \E name \in AttributeNameInputs, format \in FormatInputs,
          arraySize \in 0..MaxArraySize, offset \in {0, 3}, stride \in StrideInputs :
          call' = AttributeCall("offset", name, "", format, arraySize, offset,
                      1, stride,
                      MeshAttributeDataOffsetOnly(name, format, offset, 1, stride,
                                                  arraySize))
    /\ UNCHANGED data

PaddingInputs == {-65000, -32769, -32768, -32767, -35, -1, 0, 3, 32767, 32768, 65000}

ConstructAttributePadding ==
    /\ call.op = "none"
    /\ \E padding \in PaddingInputs :
          call' = [op |-> "MeshAttributeDataPadding", padding |-> padding,
                   result |-> MeshAttributeDataPadding(padding)]
    /\ UNCHANGED data

(* data() and data(vertexData) of the descriptor just constructed *)
QueryAttributeData ==
    /\ call.op \in {"MeshAttributeData", "MeshAttributeDataPadding"}
    /\ call.result.ok
    /\ \E vertexData \in VertexBuffers :
          call' = [op |-> "data", attribute |-> call.result.value,
                   vertexData |-> vertexData,
                   data |-> MeshAttributeData_data(call.result.value),
                   dataAt |-> MeshAttributeData_dataAt(call.result.value,
                                                        vertexData)]
    /\ UNCHANGED data

NextAttribute ==
    \/ ConstructAttributeTypeErased
    \/ ConstructAttributeTyped
    \/ ConstructAttributeOffsetOnly
    \/ ConstructAttributePadding
    \/ QueryAttributeData

SpecAttribute == Init /\ [][NextAttribute]_vars

----------------------------------------------------------------------------
(* Callers of the accessors: a mesh of one vertex is made of offset-only
   descriptors into the vertex array, names repeating among them, and is
   then asked for typed views and for attributes by name. *)

MaxAccessAttributes == 3

AccessArgument(name, format, stride, arraySize) ==
    [name |-> name, format |-> format, stride |-> stride, arraySize |-> arraySize]

AccessArguments ==
    {AccessArgument(MeshAttributePosition, VertexFormat("Vector2ub"), 2, 0),
     AccessArgument(MeshAttributePosition, VertexFormat("Vector2ubNormalized"), 2, 0),
     AccessArgument(MeshAttributePosition, VertexFormat("Vector3ub"), 3, 0),
     AccessArgument(MeshAttributeColor, VertexFormat("Vector3ubNormalized"), 3, 0),
     AccessArgument(MeshAttributeCustom, VertexFormat("UnsignedByte"), 2, 2),
     AccessArgument(MeshAttributeCustom, VertexFormat("UnsignedByteNormalized"), 1, 0),
     AccessArgument(MeshAttributeNormal, U32(1, 9), 4, 0)}

BuildAccessAttribute(a) ==
    MeshAttributeDataOffsetOnly(a.name, a.format, 0, 1, a.stride, a.arraySize).value

AccessAttributeInputs ==
    UNION {[1..n -> {BuildAccessAttribute(a) : a \in AccessArguments}] :
              n \in 0..MaxAccessAttributes}

AccessTypes == {"Vector2ub", "Vector3ub", "Color3ub", "UnsignedByte", "Vector2"}

AccessNames ==
    {MeshAttributePosition, MeshAttributeNormal, MeshAttributeTextureCoordinates,
     MeshAttributeColor, MeshAttributeCustom}

ConstructForAccess ==
    /\ call.op = "none"
    /\ \E attributes \in AccessAttributeInputs :
          LET result == MeshData("Triangles", NullView, MeshIndexDataNone,
                                 ArrayView(VertexBase, VertexDataSize), attributes)
          IN /\ call' = [op |-> "MeshData", result |-> result]
             /\ data' = Constructed(result)

AccessAttributeTyped ==
    /\ data.constructed
    /\ call.op = "MeshData"
    /\ \E T \in AccessTypes, isArray \in BOOLEAN, id \in 0..MaxAccessAttributes :
          call' = [op |-> "attribute<T>", type |-> T, isArray |-> isArray, id |-> id,
                   attribute |->
                       IF isArray THEN MeshData_attributeArrayTyped(data, T, id)
                       ELSE MeshData_attributeTyped(data, T, id),
                   mutableAttribute |->
                       IF isArray THEN MeshData_mutableAttributeArrayTyped(data, T, id)
                       ELSE MeshData_mutableAttributeTyped(data, T, id)]
    /\ UNCHANGED data

LookupAttribute ==
    /\ data.constructed
    /\ call.op = "MeshData"
    /\ \E name \in AccessNames, id \in 0..MaxAccessAttributes :
          call' = [op |-> "attributeId", name |-> name, id |-> id,
                   hasAttribute |-> MeshData_hasAttribute(data, name),
                   attributeCount |-> MeshData_attributeCountOf(data, name),
                   result |-> MeshData_attributeId(data, name, id)]
    /\ UNCHANGED data

NextAccess ==
    \/ ConstructForAccess
    \/ AccessAttributeTyped
    \/ LookupAttribute

SpecAccess == Init /\ [][NextAccess]_vars

----------------------------------------------------------------------------
(* Callers that lend the mesh one or both of its buffers: the five
   constructors that take data flags, with at most one attribute. *)

BorrowAttributeInputs == {a \in AttributeInputs : Len(a.arguments) <= 1}

BorrowCall(overload, indexDataFlags, indexData, indices, vertexDataFlags, vertexData, attributes, result) ==
    [op |-> "MeshDataNotOwned", overload |-> overload,
     indexBorrowed |-> overload \in {"both", "indices", "attributeless"},
     vertexBorrowed |-> overload \in {"both", "vertices", "indexless"},
     indexDataFlags |-> indexDataFlags, indexData |-> indexData,
     indices |-> indices, vertexDataFlags |-> vertexDataFlags,
     vertexData |-> vertexData, attributes |-> attributes, result |-> result]

ConstructBothBorrowed ==
    /\ call.op = "none"
    /\ \E indexDataFlags \in DataFlagsInputs, indexData \in IndexBuffers,
          indices \in IndexInputs,
          vertexDataFlags \in DataFlagsInputs, vertexData \in VertexBuffers,
          attributes \in BorrowAttributeInputs :
          LET result == MeshDataNotOwned("Triangles", indexDataFlags, indexData,
                                         indices.indices, vertexDataFlags,
                                         vertexData, attributes.attributes)
          IN /\ call' = BorrowCall("both", indexDataFlags, indexData,
                                   indices.arguments, vertexDataFlags, vertexData,
                                   attributes.arguments, result)
             /\ data' = Constructed(result)

ConstructIndicesBorrowed ==
    /\ call.op = "none"
    /\ \E indexDataFlags \in DataFlagsInputs, indexData \in IndexBuffers,
          indices \in IndexInputs, vertexData \in VertexBuffers,
          attributes \in BorrowAttributeInputs :
          LET result == MeshDataIndicesNotOwned("Triangles", indexDataFlags,
                                                indexData, indices.indices,
                                                vertexData, attributes.attributes)
          IN /\ call' = BorrowCall("indices", indexDataFlags, indexData,
                                   indices.arguments, OwnedMutable, vertexData,
                                   attributes.arguments, result)
             /\ data' = Constructed(result)

ConstructVerticesBorrowed ==
    /\ call.op = "none"
    /\ \E indexData \in IndexBuffers, indices \in IndexInputs,
          vertexDataFlags \in DataFlagsInputs, vertexData \in VertexBuffers,
          attributes \in BorrowAttributeInputs :
          LET result == MeshDataVerticesNotOwned("Triangles", indexData,
                                                 indices.indices, vertexDataFlags,
                                                 vertexData, attributes.attributes)
          IN /\ call' = BorrowCall("vertices", OwnedMutable, indexData,
                                   indices.arguments, vertexDataFlags, vertexData,
                                   attributes.arguments, result)
             /\ data' = Constructed(result)

ConstructIndexlessBorrowed ==
    /\ call.op = "none"
    /\ \E vertexDataFlags \in DataFlagsInputs, vertexData \in VertexBuffers,
          attributes \in BorrowAttributeInputs :
          LET result == MeshDataIndexlessNotOwned("Triangles", vertexDataFlags,
                                                  vertexData, attributes.attributes)
          IN /\ call' = BorrowCall("indexless", OwnedMutable, NullView,
                                   IndexArgument("nullptr", "", 0, 0),
                                   vertexDataFlags, vertexData,
                                   attributes.arguments, result)
             /\ data' = Constructed(result)

ConstructAttributelessBorrowed ==
    /\ call.op = "none"
    /\ \E indexDataFlags \in DataFlagsInputs, indexData \in IndexBuffers,
          indices \in IndexInputs :
          LET result == MeshDataAttributelessNotOwned("Triangles", indexDataFlags,
                                                      indexData, indices.indices)
          IN /\ call' = BorrowCall("attributeless", indexDataFlags, indexData,
                                   indices.arguments, OwnedMutable, NullView,
                                   << >>, result)
             /\ data' = Constructed(result)

NextBorrow ==
    \/ ConstructBothBorrowed
    \/ ConstructIndicesBorrowed
    \/ ConstructVerticesBorrowed
    \/ ConstructIndexlessBorrowed
    \/ ConstructAttributelessBorrowed

SpecBorrow == Init /\ [][NextBorrow]_vars

----------------------------------------------------------------------------
(* MeshData: the AsArray conversions of positions and colors.  A Float is
   kept as a fraction; the callers below store components of one unsigned
   byte, which is what the decoding here covers. *)

Float(n) == [num |-> n, den |-> 1]

(* Math::unpack<Float>() of an unsigned byte *)
Math_unpack(byte) == [num |-> byte, den |-> 255]

(* the k-th component of the i-th element of an attribute, as a Float *)
ConvertedComponent(mesh, attribute, i, k) ==
    LET view == AttributeView(mesh, attribute)
        byte == MemoryByte(PointerAdd(view.data, i * view.stride[1] + k))
    IN IF isVertexFormatNormalized(attribute.format).value
       THEN Math_unpack(byte) ELSE Float(byte)

(* the elements of an attribute as vectors of the wanted number of
   components: stored components first, then the fill *)
ConvertedElements(mesh, attribute, components, fill) ==
    LET stored == vertexFormatComponentCount(attribute.format).value
    IN [i \in 1..mesh.vertexCount |->
           [k \in 1..components |->
               IF k <= stored THEN ConvertedComponent(mesh, attribute, i - 1, k - 1)
               ELSE fill]]

(* what every conversion expects of the attribute it is asked for *)
ConvertedAttribute(mesh, function, name, id, components, fill) ==
    LET attributeId == MeshData_attributeFor(mesh, name, id)
    IN IF attributeId = Len(mesh.attributes)
       THEN Fail(function \o "(): index out of range for the name")
       ELSE IF isVertexFormatImplementationSpecific(mesh.attributes[attributeId + 1].format)
       THEN Fail(function \o "(): can't extract data out of an implementation-specific vertex format")
       ELSE Ok(ConvertedElements(mesh, mesh.attributes[attributeId + 1],
                                 components, fill))

MeshData_positions2DAsArray(mesh, id) ==
    ConvertedAttribute(mesh, "Trade::MeshData::positions2DInto",
                       MeshAttributePosition, id, 2, Float(0))

(* positions3DAsArray() that would read on past a two-component position *)
MeshData_positions3DAsArrayReadingOn(mesh, id) ==
    LET attributeId == MeshData_attributeFor(mesh, MeshAttributePosition, id)
    IN IF attributeId = Len(mesh.attributes)
       THEN Fail("Trade::MeshData::positions3DInto(): index out of range for the name")
       ELSE Ok([i \in 1..mesh.vertexCount |->
                   [k \in 1..3 |->
                       ConvertedComponent(mesh, mesh.attributes[attributeId + 1],
                                          i - 1, k - 1)]])

MeshData_positions3DAsArray(mesh, id) ==
    ConvertedAttribute(mesh, "Trade::MeshData::positions3DInto",
                       MeshAttributePosition, id, 3, Float(0))

MeshData_colorsAsArray(mesh, id) ==
    ConvertedAttribute(mesh, "Trade::MeshData::colorsInto",
                       MeshAttributeColor, id, 4, Float(1))

----------------------------------------------------------------------------
(* Callers of the conversions: a mesh of up to MaxConvertCount vertices of
   four bytes each, holding positions and colors of unsigned bytes at
   offsets into the vertex, is asked for its positions and colors. *)

MaxConvertCount == 2

ConvertStride == 4

ConvertVertexData == ArrayView(VertexBase, ConvertStride * MaxConvertCount)

ConvertArguments(n) ==
    {AttributeArgument("offset", MeshAttributePosition, "",
                       VertexFormat("Vector2ub"), 0, n, ConvertStride),
     AttributeArgument("offset", MeshAttributePosition, "",
                       VertexFormat("Vector2ubNormalized"), 1, n, ConvertStride),
     AttributeArgument("offset", MeshAttributePosition, "",
                       VertexFormat("Vector3ub"), 1, n, ConvertStride),
     AttributeArgument("offset", MeshAttributePosition, "",
                       VertexFormat("Vector3ubNormalized"), 0, n, ConvertStride),
     AttributeArgument("offset", MeshAttributeColor, "",
                       VertexFormat("Vector3ubNormalized"), 0, n, ConvertStride),
     AttributeArgument("offset", MeshAttributeColor, "",
                       VertexFormat("Vector4ubNormalized"), 0, n, ConvertStride),
     AttributeArgument("offset", MeshAttributeNormal, "", U32(1, 9), 0, n,
                       ConvertStride)}

ConstructForConvert ==
    /\ call.op = "none"
    /\ \E n \in 0..MaxConvertCount, length \in 1..2 :
          \E list \in [1..length -> ConvertArguments(n)] :
              LET result == MeshData("Points", NullView, MeshIndexDataNone,
                                     ConvertVertexData, BuildAttributes(list))
              IN /\ call' = [op |-> "MeshData", attributes |-> list,
                             result |-> result]
                 /\ data' = Constructed(result)

ConvertAttribute ==
    /\ data.constructed
    /\ call.op = "MeshData"
    /\ \E id \in 0..2 :
          \/ call' = [op |-> "positions2DAsArray", id |-> id,
                      attributes |-> call.attributes,
                      result |-> MeshData_positions2DAsArray(data, id)]
          \/ call' = [op |-> "positions3DAsArray", id |-> id,
                      attributes |-> call.attributes,
                      result |-> MeshData_positions3DAsArray(data, id)]
          \/ call' = [op |-> "colorsAsArray", id |-> id,
                      attributes |-> call.attributes,
                      result |-> MeshData_colorsAsArray(data, id)]
    /\ UNCHANGED data

NextConvert ==
    \/ ConstructForConvert
    \/ ConvertAttribute

SpecConvert == Init /\ [][NextConvert]_vars

----------------------------------------------------------------------------
(* MeshTools::combineIndexedAttributes().  A mesh is taken here by what the
   function reads of it through the accessors: its primitive, whether it is
   indexed, its indices and the value of its attributes at every vertex. *)

(* the indices the inputs have at position i, one of each input *)
CombinedIndices(meshes, i) == [k \in 1..Len(meshes) |-> meshes[k].indices[i]]

(* the distinct combined indices of the first i positions, in the order they
   appear *)
RECURSIVE UniqueCombinedIndices(_, _)
UniqueCombinedIndices(meshes, i) ==
    IF i = 0 THEN << >>
    ELSE LET before == UniqueCombinedIndices(meshes, i - 1)
         IN IF \E j \in 1..Len(before) : before[j] = CombinedIndices(meshes, i)
            THEN before
            ELSE Append(before, CombinedIndices(meshes, i))

(* a combined mesh that would keep one vertex for every position *)
CombinedMeshKeepingDuplicates(meshes) ==
    [primitive |-> meshes[1].primitive,
     indexType |-> MeshIndexType("UnsignedInt"),
     indices |-> [i \in 1..Len(meshes[1].indices) |-> i - 1],
     vertexCount |-> Len(meshes[1].indices),
     attributes |-> [k \in 1..Len(meshes) |->
                        [j \in 1..Len(meshes[1].indices) |->
                            meshes[k].vertices[meshes[k].indices[j] + 1]]]]

(* the combined mesh: a vertex for every distinct combination of indices,
   holding the attributes of every input at its index of the combination,
   and at every position the index of the vertex of its combination *)
CombinedMesh(meshes) ==
    LET count == Len(meshes[1].indices)
        unique == UniqueCombinedIndices(meshes, count)
    IN [primitive |-> meshes[1].primitive,
        indexType |-> MeshIndexType("UnsignedInt"),
        indices |-> [i \in 1..count |->
                        (CHOOSE j \in 1..Len(unique) :
                            unique[j] = CombinedIndices(meshes, i)) - 1],
        vertexCount |-> Len(unique),
        attributes |-> [k \in 1..Len(meshes) |->
                           [j \in 1..Len(unique) |->
                               meshes[k].vertices[unique[j][k] + 1]]]]

combineIndexedAttributes(meshes) ==
    IF Len(meshes) = 0
    THEN Fail("MeshTools::combineIndexedAttributes(): no meshes passed")
    ELSE IF \E k \in 1..Len(meshes) : ~meshes[k].isIndexed
    THEN Fail("MeshTools::combineIndexedAttributes(): data is not indexed")
    ELSE IF \E k \in 1..Len(meshes) : meshes[k].primitive # meshes[1].primitive
    THEN Fail("MeshTools::combineIndexedAttributes(): data is of a different primitive")
    ELSE IF \E k \in 1..Len(meshes) :
               Len(meshes[k].indices) # Len(meshes[1].indices)
    THEN Fail("MeshTools::combineIndexedAttributes(): data has a different index count")
    ELSE Ok(CombinedMesh(meshes))

----------------------------------------------------------------------------
(* Callers of combineIndexedAttributes(): one or two meshes of up to
   MaxCombineIndices indices into MaxCombineVertices vertices, a mesh of
   another primitive and a mesh without indices among them, and the two
   meshes of the documentation. *)

MaxCombineIndices == 3

MaxCombineVertices == 2

(* a mesh whose vertices hold the bytes from an address on *)
CombineMesh(primitive, isIndexed, indices, base, vertices) ==
    [primitive |-> primitive, isIndexed |-> isIndexed, indices |-> indices,
     vertices |-> [v \in 1..vertices |-> MemoryByte(PointerAdd(base, v - 1))]]

DocumentedPositions ==
    CombineMesh("Triangles", TRUE, << 0, 2, 5, 0, 0, 1, 3, 2, 2 >>, VertexBase, 6)

DocumentedNormals ==
    CombineMesh("Triangles", TRUE, << 1, 3, 4, 1, 4, 6, 1, 3, 1 >>, ForeignBase, 7)

CombineMeshes(count) ==
    {CombineMesh("Triangles", TRUE, indices, base, MaxCombineVertices) :
        indices \in [1..count -> 0..(MaxCombineVertices - 1)],
        base \in {VertexBase, ForeignBase}}
      \cup {CombineMesh("Points", TRUE, [i \in 1..count |-> 0], VertexBase,
                        MaxCombineVertices),
            CombineMesh("Triangles", TRUE, [i \in 1..(count - 1) |-> 0],
                        VertexBase, MaxCombineVertices),
            CombineMesh("Triangles", FALSE, << >>, VertexBase,
                        MaxCombineVertices)}

CombineIndexedAttributes ==
    /\ call.op = "none"
    /\ \E meshes \in {<< >>, << DocumentedPositions, DocumentedNormals >>}
                        \cup UNION {[1..n -> CombineMeshes(count)] :
                                       n \in 1..2, count \in 1..MaxCombineIndices} :
          call' = [op |-> "combineIndexedAttributes", meshes |-> meshes,
                   result |-> combineIndexedAttributes(meshes)]
    /\ UNCHANGED data

NextCombine == CombineIndexedAttributes

SpecCombine == Init /\ [][NextCombine]_vars

----------------------------------------------------------------------------
(* C1: for every valid generic vertex format F, the component format, the
   component count and the normalization flag of F are all available, and
   vertexFormat() called with those three returns exactly F. *)
AssembleRoundtrip ==
    /\ (call.op = "query" /\ call.format \in ValidGenericFormats)
          => (call.componentFormat.ok /\ call.componentCount.ok /\ call.normalized.ok)
    /\ call.op = "reassemble" => call.result = Ok(call.origin)

AssembleRoundtripWitness ==
    /\ call.op = "reassemble"
    /\ call.origin = VertexFormat("Vector4usNormalized")
    /\ call.result.ok

(* What the caller's arguments describe, read off the arguments alone. *)

(* the addresses a..b-1 *)
AddressRange(begin, end) == {begin + k : k \in 0..(end - begin - 1)}

Addresses(view) == AddressRange(view.data, view.data + view.size)

(* how many elements an attribute argument describes *)
ArgumentCount(a) == a.size

(* the bytes of one element of an attribute argument *)
ArgumentElementSize(a) ==
    IF a.kind = "view" THEN vertexFormatSize(vertexFormatFor(a.type)).value
    ELSE IF isVertexFormatImplementationSpecific(a.format) THEN 0
    ELSE vertexFormatSize(a.format).value

ArgumentSpecifies(a) == a.kind \in {"view", "offset", "nullptr"}

(* where the first element is, an offset counting from the vertex data *)
ArgumentBegin(a, vertexData) ==
    IF a.kind = "offset" THEN vertexData.data + a.data ELSE a.data

(* the end of the last element *)
ArgumentEnd(a, vertexData) ==
    ArgumentBegin(a, vertexData) + (a.size - 1) * a.stride + ArgumentElementSize(a)

(* an argument describes elements that are not all inside the vertex data *)
ArgumentOutside(a, vertexData) ==
    /\ ArgumentSpecifies(a)
    /\ a.size > 0
    /\ ~(AddressRange(ArgumentBegin(a, vertexData), ArgumentEnd(a, vertexData))
            \subseteq Addresses(vertexData))

(* the bytes of the caller's index view *)
IndexArgumentView(a) ==
    ArrayView(a.data, a.size * meshIndexTypeSize(MeshIndexType(a.type)).value)

IndexArgumentOutside(a, indexData) ==
    /\ a.kind = "typed"
    /\ ~(Addresses(IndexArgumentView(a)) \subseteq Addresses(indexData))

(* the index side of a constructor call is in order *)
IndexArgumentsValid ==
    /\ call.indices.kind = "nullptr" => call.indexData.size = 0
    /\ call.indices.kind = "nullptr" => Len(call.attributes) > 0
    /\ call.indices.kind = "typed" =>
          RangeContained(IndexArgumentView(call.indices).data,
                         IndexArgumentView(call.indices).data
                             + IndexArgumentView(call.indices).size,
                         call.indexData)

(* the flags of a constructor call are in order *)
FlagArgumentsValid ==
    call.owned \/ ("Owned" \notin call.indexDataFlags
                      /\ "Owned" \notin call.vertexDataFlags)

NotContainedText ==
    "Trade::MeshData: attribute is not contained in passed vertexData array"

(* C2: a MeshData constructor fails whenever some attribute the caller
   passes describes elements that are not all inside the vertex data passed
   with it, an empty vertex data included; when nothing else is wrong with
   the call the failure is the containment error, and a containment error
   names an attribute that is outside, its byte range and the byte range of
   the vertex data; and in every mesh the view of every attribute lies inside
   the vertex data of the mesh. *)
AttributesContained ==
    /\ call.op = "MeshData" =>
          \A i \in 1..Len(call.attributes) :
              ArgumentOutside(call.attributes[i], call.vertexData)
                  => ~call.result.ok
    /\ (call.op = "MeshData"
          /\ IndexArgumentsValid /\ FlagArgumentsValid
          /\ (\A i \in 1..Len(call.attributes) :
                 /\ ArgumentSpecifies(call.attributes[i])
                 /\ ArgumentCount(call.attributes[i])
                       = ArgumentCount(call.attributes[1]))
          /\ \E i \in 1..Len(call.attributes) :
                 ArgumentOutside(call.attributes[i], call.vertexData))
          => (~call.result.ok /\ call.result.message.text = NotContainedText)
    /\ (call.op = "MeshData" /\ ~call.result.ok
          /\ call.result.message.text = NotContainedText)
          => LET message == call.result.message
                 a == call.attributes[message.attribute + 1]
             IN /\ message.attribute < Len(call.attributes)
                /\ ArgumentOutside(a, call.vertexData)
                /\ message.begin = ArgumentBegin(a, call.vertexData)
                /\ message.end = ArgumentEnd(a, call.vertexData)
                /\ message.dataBegin = call.vertexData.data
                /\ message.dataEnd = call.vertexData.data + call.vertexData.size
    /\ data.constructed =>
          \A id \in 0..(MeshData_attributeCount(data) - 1) :
              LET view == MeshData_attribute(data, id).value
              IN view.size[1] > 0 =>
                    AddressRange(view.data,
                                 view.data + (view.size[1] - 1) * view.stride[1]
                                     + view.size[2])
                        \subseteq Addresses(MeshData_vertexData(data))

AttributesContainedWitness ==
    /\ call.op = "MeshData"
    /\ ~call.result.ok
    /\ call.result.message.text = NotContainedText
    /\ call.result.message.attribute = 1
    /\ call.vertexData.size > 0
    /\ ~ArgumentOutside(call.attributes[1], call.vertexData)

IndicesNotContainedText ==
    "Trade::MeshData: indices are not contained in passed indexData array"

(* C3: a MeshData constructor fails whenever the bytes of the index view the
   caller passes are not all inside the index data passed with it, an empty
   or absent index data included, and the error then reported names the
   byte ranges of the two; in every indexed mesh the bytes of the index view
   lie inside the index data of the mesh. *)
IndicesContained ==
    /\ (call.op = "MeshData"
          /\ IndexArgumentOutside(call.indices, call.indexData))
          => (/\ ~call.result.ok
              /\ call.result.message.text = IndicesNotContainedText
              /\ call.result.message.begin = call.indices.data
              /\ call.result.message.end
                    = call.indices.data + IndexArgumentView(call.indices).size
              /\ call.result.message.dataBegin = call.indexData.data
              /\ call.result.message.dataEnd
                    = call.indexData.data + call.indexData.size)
    /\ (call.op = "MeshData" /\ call.result.ok /\ MeshData_isIndexed(data))
          => (/\ MeshData_indices(data).value.data = call.indices.data
              /\ MeshData_indexCount(data).value = call.indices.size
              /\ MeshData_indexData(data) = call.indexData)
    /\ (data.constructed /\ MeshData_isIndexed(data))
          => LET view == MeshData_indices(data).value
             IN AddressRange(view.data, view.data + view.size[1] * view.size[2])
                    \subseteq Addresses(MeshData_indexData(data))

IndicesContainedWitness ==
    /\ call.op = "MeshData"
    /\ ~call.result.ok
    /\ call.result.message.text = IndicesNotContainedText
    /\ call.indexData.size > 0
    /\ call.indices.data = call.indexData.data + 2

CountText ==
    "Trade::MeshData: attribute has a different vertex count than expected"

(* C4: a MeshData constructor fails if two of the attributes the caller
   passes describe different numbers of elements; the error reported for it
   names an attribute, its number of elements and the different number that
   was expected, which is that of the first attribute; and a mesh just
   constructed from at least one attribute has vertexCount() equal to the
   number of elements of every attribute, as passed and as stored. *)
ConsistentVertexCount ==
    /\ (call.op = "MeshData"
          /\ \E i, j \in 1..Len(call.attributes) :
                 ArgumentCount(call.attributes[i])
                     # ArgumentCount(call.attributes[j]))
          => ~call.result.ok
    /\ (call.op = "MeshData"
          /\ IndexArgumentsValid
          /\ (\A i \in 1..Len(call.attributes) :
                 /\ ArgumentSpecifies(call.attributes[i])
                 /\ ~ArgumentOutside(call.attributes[i], call.vertexData))
          /\ \E i \in 1..Len(call.attributes) :
                 ArgumentCount(call.attributes[i])
                     # ArgumentCount(call.attributes[1]))
          => (~call.result.ok /\ call.result.message.text = CountText)
    /\ (call.op = "MeshData" /\ ~call.result.ok
          /\ call.result.message.text = CountText)
          => LET message == call.result.message
             IN /\ message.attribute \in 1..(Len(call.attributes) - 1)
                /\ message.vertices
                      = ArgumentCount(call.attributes[message.attribute + 1])
                /\ message.expected = ArgumentCount(call.attributes[1])
                /\ message.vertices # message.expected
    /\ (call.op = "MeshData" /\ call.result.ok /\ Len(call.attributes) > 0)
          => (/\ MeshData_attributeCount(data) = Len(call.attributes)
              /\ \A i \in 1..Len(call.attributes) :
                    /\ ArgumentCount(call.attributes[i]) = MeshData_vertexCount(data)
                    /\ MeshData_attributeData(data)[i].vertexCount
                          = MeshData_vertexCount(data)
                    /\ MeshData_attribute(data, i - 1).value.size[1]
                          = MeshData_vertexCount(data))

ConsistentVertexCountWitness ==
    /\ call.op = "MeshData"
    /\ ~call.result.ok
    /\ call.result.message.text = CountText
    /\ call.result.message.attribute = 1
    /\ call.result.message.vertices = 1
    /\ call.result.message.expected = 2

(* what the accessor calls below are tried with *)
IndexTypeArguments == {"UnsignedByte", "UnsignedShort", "UnsignedInt"}

AttributeTypeArguments == {"Vector2ub", "UnsignedByte"}

AttributeNameArguments ==
    {MeshAttributePosition, MeshAttributeNormal, MeshAttributeCustom}

AttributeIdArguments == 0..MaxAttributes

(* which attribute of its name the id-th attribute of a mesh is *)
Occurrence(mesh, id) ==
    Cardinality({j \in 1..id : mesh.attributes[j].name = mesh.attributes[id + 1].name})

(* C5: in a mesh whose index data flags lack Mutable, mutableIndexData() and
   mutableIndices(), untyped and typed, fail, and in a mesh whose vertex data
   flags lack Mutable, mutableVertexData() and mutableAttribute(), by id and
   by name, untyped and typed, fail, each side of the mesh gated by its own
   flags only; the immutable accessors succeed all the same (indices() for an
   indexed mesh, attribute() for an attribute the mesh has, the typed ones
   for a matching type); and what a mesh just constructed over borrowed
   buffers returns are the bytes of those buffers. *)
MutabilityGate ==
    /\ (data.constructed /\ "Mutable" \notin MeshData_indexDataFlags(data))
          => (/\ ~MeshData_mutableIndexData(data).ok
              /\ ~MeshData_mutableIndices(data).ok
              /\ \A T \in IndexTypeArguments :
                    ~MeshData_mutableIndicesTyped(data, T).ok)
    /\ (data.constructed /\ "Mutable" \notin MeshData_vertexDataFlags(data))
          => (/\ ~MeshData_mutableVertexData(data).ok
              /\ \A id \in AttributeIdArguments, T \in AttributeTypeArguments,
                    name \in AttributeNameArguments :
                    /\ ~MeshData_mutableAttribute(data, id).ok
                    /\ ~MeshData_mutableAttributeTyped(data, T, id).ok
                    /\ ~MeshData_mutableAttributeNamed(data, name, id).ok
                    /\ ~MeshData_mutableAttributeNamedTyped(data, T, name, id).ok)
    /\ (data.constructed /\ "Mutable" \in MeshData_indexDataFlags(data))
          => (/\ MeshData_mutableIndexData(data) = Ok(MeshData_indexData(data))
              /\ MeshData_isIndexed(data)
                    => MeshData_mutableIndices(data) = MeshData_indices(data))
    /\ (data.constructed /\ "Mutable" \in MeshData_vertexDataFlags(data))
          => (/\ MeshData_mutableVertexData(data) = Ok(MeshData_vertexData(data))
              /\ \A id \in 0..(MeshData_attributeCount(data) - 1) :
                    MeshData_mutableAttribute(data, id) = MeshData_attribute(data, id))
    /\ (data.constructed /\ MeshData_isIndexed(data))
          => (/\ MeshData_indices(data).ok
              /\ MeshData_indicesTyped(data,
                     MeshIndexTypeNames[MeshData_indexType(data).value]).ok)
    /\ data.constructed
          => \A id \in 0..(MeshData_attributeCount(data) - 1) :
                LET attribute == MeshData_attributeData(data)[id + 1]
                IN /\ MeshData_attribute(data, id).ok
                   /\ MeshData_attributeNamed(data, attribute.name,
                                              Occurrence(data, id))
                         = MeshData_attribute(data, id)
                   /\ \A T \in AttributeTypeArguments :
                         attribute.format = vertexFormatFor(T)
                            => /\ MeshData_attributeTyped(data, T, id).ok
                               /\ MeshData_attributeNamedTyped(data, T,
                                      attribute.name, Occurrence(data, id)).ok
    /\ (call.op = "MeshData" /\ ~call.owned /\ call.result.ok)
          => (/\ Bytes(MeshData_indexData(data)) = Bytes(call.indexData)
              /\ Bytes(MeshData_vertexData(data)) = Bytes(call.vertexData)
              /\ MeshData_isIndexed(data)
                    => LET view == MeshData_indicesTyped(data, call.indices.type).value
                       IN /\ view.size = call.indices.size
                          /\ Bytes(ArrayView(view.data, IndexArgumentView(call.indices).size))
                                = Bytes(IndexArgumentView(call.indices))
              /\ \A id \in 0..(MeshData_attributeCount(data) - 1) :
                    LET a == call.attributes[id + 1]
                        view == MeshData_attribute(data, id).value
                    IN /\ view.size = << a.size, ArgumentElementSize(a) >>
                       /\ view.stride[1] = a.stride
                       /\ a.size > 0 =>
                            Bytes(ArrayView(view.data, view.size[2]))
                               = Bytes(ArrayView(ArgumentBegin(a, call.vertexData),
                                                 ArgumentElementSize(a))))

MutabilityGateWitness ==
    /\ call.op = "MeshData"
    /\ ~call.owned
    /\ call.result.ok
    /\ MeshData_indexDataFlags(data) = {}
    /\ MeshData_vertexDataFlags(data) = {"Mutable"}
    /\ MeshData_isIndexed(data)
    /\ MeshData_attributeCount(data) = 2
    /\ MeshData_vertexCount(data) = 2
    /\ ~MeshData_mutableIndicesTyped(data, "UnsignedShort").ok
    /\ MeshData_indicesTyped(data, "UnsignedShort").ok
    /\ MeshData_mutableAttributeTyped(data, "Vector2ub", 0).ok

(* the bytes from the first element of an attribute to the end of its last *)
AttributeSpan(view) ==
    IF view.size[1] = 0 THEN 0
    ELSE (view.size[1] - 1) * view.stride[1] + view.size[2]

(* what releaseVertexData() leaves of a mesh with attributes, but for what
   vertexData() then points to: no vertices, attribute views without
   elements, the attributes with their offsets and their raw descriptors,
   and the vertex data, with the bytes of every attribute at its offset, for
   the caller *)
VertexReleaseKeeps(before, after, released) ==
    /\ MeshData_vertexCount(after) = 0
    /\ MeshData_attributeCount(after) = MeshData_attributeCount(before)
    /\ MeshData_attributeData(after) = MeshData_attributeData(before)
    /\ MeshData_vertexData(after).size = 0
    /\ released = MeshData_vertexData(before)
    /\ \A id \in 0..(MeshData_attributeCount(before) - 1) :
          LET offset == MeshData_attributeOffset(before, id)
              view == MeshData_attribute(before, id).value
              raw == MeshData_attributeData(after)[id + 1]
          IN /\ MeshData_attribute(after, id).ok
             /\ MeshData_attribute(after, id).value.size[1] = 0
             /\ MeshData_mutableAttribute(after, id).ok
                   => MeshData_mutableAttribute(after, id).value.size[1] = 0
             /\ offset.ok
             /\ MeshData_attributeOffset(after, id) = offset
             /\ raw.vertexCount = MeshData_attributeData(before)[id + 1].vertexCount
             /\ ~raw.isOffsetOnly
                   => MeshAttributeData_data(raw).value.size = raw.vertexCount
             /\ PointerAdd(released.data, offset.value) = view.data
             /\ AttributeSpan(view) > 0
                   => SubSeq(Bytes(released), offset.value + 1,
                             offset.value + AttributeSpan(view))
                         = Bytes(ArrayView(view.data, AttributeSpan(view)))

(* C6 as stated: after releaseVertexData() on a mesh with attributes,
   vertexCount() is 0, the views of attribute() and mutableAttribute() have
   no elements, attributeCount() and every attributeOffset() are what they
   were, the raw attributeData() descriptors keep their element count, the
   returned array holds the vertex bytes at those offsets, and vertexData()
   is a non-null view of size 0. *)
VertexDataReleasedNonNull ==
    [][(call'.op = "releaseVertexData" /\ MeshData_attributeCount(data) > 0)
          => (/\ VertexReleaseKeeps(data, data', call'.result)
              /\ MeshData_vertexData(data').data # 0)]_vars

(* C6, amended: as above, but vertexData() is the view of size 0 at the
   beginning of the released array, so non-null whenever that array is. *)
VertexDataReleased ==
    [][(call'.op = "releaseVertexData" /\ MeshData_attributeCount(data) > 0)
          => (/\ VertexReleaseKeeps(data, data', call'.result)
              /\ MeshData_vertexData(data') = ArrayView(call'.result.data, 0)
              /\ call'.result.data # 0 => MeshData_vertexData(data').data # 0)]_vars

VertexDataReleasedWitness ==
    /\ call.op = "releaseVertexData"
    /\ call.result = ArrayView(VertexBase, VertexDataSize)
    /\ MeshData_attributeCount(data) = 2
    /\ MeshData_attributeOffset(data, 1) = Ok(3)
    /\ MeshData_attributeData(data)[2].vertexCount = 1
    /\ MeshData_vertexCount(data) = 0
    /\ MeshData_vertexData(data) = ArrayView(VertexBase, 0)

(* what releaseIndexData() leaves of an indexed mesh, but for what
   indexData() then points to *)
IndexReleaseKeeps(before, after, released) ==
    LET offset == MeshData_indexOffset(before)
        view == MeshData_indices(before).value
        size == view.size[1] * view.size[2]
    IN /\ MeshData_indexData(after).size = 0
       /\ MeshData_indexData(after).data = released.data
       /\ MeshData_indexCount(after) = Ok(0)
       /\ MeshData_isIndexed(after)
       /\ MeshData_indexType(after).ok
       /\ MeshData_indexType(after) = MeshData_indexType(before)
       /\ offset.ok
       /\ MeshData_indexOffset(after) = offset
       /\ released = MeshData_indexData(before)
       /\ PointerAdd(released.data, offset.value) = view.data
       /\ size > 0 => SubSeq(Bytes(released), offset.value + 1, offset.value + size)
                         = Bytes(ArrayView(view.data, size))

(* C7 as stated: after releaseIndexData() on an indexed mesh, indexData() is
   a non-null view of size 0 at the beginning of the returned array,
   indexCount() is 0, isIndexed() still holds, indexType() and indexOffset()
   are what they were, and the returned array holds the index bytes at that
   offset. *)
IndexDataReleasedNonNull ==
    [][(call'.op = "releaseIndexData" /\ MeshData_isIndexed(data))
          => (/\ IndexReleaseKeeps(data, data', call'.result)
              /\ MeshData_indexData(data').data # 0)]_vars

(* C7, amended: as above, but indexData() is non-null only if the returned
   array is. *)
IndexDataReleased ==
    [][(call'.op = "releaseIndexData" /\ MeshData_isIndexed(data))
          => (/\ IndexReleaseKeeps(data, data', call'.result)
              /\ call'.result.data # 0 <=> MeshData_indexData(data').data # 0)]_vars

IndexDataReleasedWitness ==
    /\ call.op = "releaseIndexData"
    /\ call.result = ArrayView(IndexBase, IndexDataSize)
    /\ MeshData_indexData(data) = ArrayView(IndexBase, 0)
    /\ MeshData_isIndexed(data)
    /\ MeshData_indexOffset(data) = Ok(2)
    /\ MeshData_indexCount(data) = Ok(0)
    /\ MeshData_vertexCount(data) = 2

(* C8: after releaseAttributeData() the returned array is the descriptors
   the mesh held, in their order, attributeCount() is 0 and attributeData()
   is empty, and vertexData() and vertexCount() are what they were. *)
AttributeDataReleased ==
    [][(call'.op = "releaseAttributeData" /\ data.constructed)
          => (/\ call'.result = MeshData_attributeData(data)
              /\ Len(call'.result) = MeshData_attributeCount(data)
              /\ MeshData_attributeCount(data') = 0
              /\ MeshData_attributeData(data') = << >>
              /\ MeshData_vertexData(data') = MeshData_vertexData(data)
              /\ MeshData_vertexCount(data') = MeshData_vertexCount(data))]_vars

AttributeDataReleasedWitness ==
    /\ call.op = "releaseAttributeData"
    /\ Len(call.result) = 2
    /\ call.result[1].name # call.result[2].name
    /\ MeshData_attributeCount(data) = 0
    /\ MeshData_vertexCount(data) = 2
    /\ MeshData_vertexData(data) = ArrayView(VertexBase, VertexDataSize)

(* C9: vertexFormatWrap(v) succeeds exactly when bit 31 of v is clear,
   vertexFormatUnwrap(f) succeeds exactly when bit 31 of f is set (so it fails
   for every generic format), and unwrapping a wrapped 31-bit value gives the
   value back. *)
WrapUnwrapInverse ==
    /\ call.op = "vertexFormatWrap" => (call.result.ok <=> call.raw.top = 0)
    /\ call.op = "vertexFormatUnwrap" => (call.result.ok <=> call.format.top = 1)
    /\ (call.op = "vertexFormatUnwrap" /\ call.format \in ValidGenericFormats)
          => ~call.result.ok
    /\ call.op = "unwrapWrapped" => call.result = Ok(call.origin)

WrapUnwrapInverseWitness ==
    /\ call.op = "unwrapWrapped"
    /\ call.origin = U32(0, Low31Max)
    /\ call.format = U32(1, Low31Max)
    /\ call.result.ok

(* C10: for every id below 32768 the custom name made from id is custom and
   converts back to id; none of the builtin names Position, Normal,
   TextureCoordinates, Color is custom. *)
CustomNameInverse ==
    /\ (call.op = "meshAttributeCustom" /\ call.id < 32768) => call.result.ok
    /\ call.op = "customRoundtrip" => (call.isCustom /\ call.result = Ok(call.origin))
    /\ (call.op = "queryName"
          /\ call.name \in {MeshAttributePosition, MeshAttributeNormal,
                            MeshAttributeTextureCoordinates, MeshAttributeColor})
          => ~call.isCustom

CustomNameInverseWitness ==
    /\ call.op = "customRoundtrip"
    /\ call.origin = 32767
    /\ call.name = 65535
    /\ call.result.ok

----------------------------------------------------------------------------
(* What the arguments of a descriptor say about its stride, read off the
   arguments alone. *)

StrideMessages ==
    {"Trade::MeshAttributeData: expected stride to be positive and at most 32k",
     "Trade::MeshAttributeData: expected stride to be positive and enough to fit the format"}

(* the stride is smaller than one element of a generic format *)
StrideTooSmall(c) ==
    /\ ~isVertexFormatImplementationSpecific(c.format)
    /\ vertexFormatSize(c.format).ok
    /\ c.stride < vertexFormatSize(c.format).value
                     * (IF c.arraySize # 0 THEN c.arraySize ELSE 1)

StrideRejected(c) == c.stride <= 0 \/ c.stride > 32767 \/ StrideTooSmall(c)

(* C11: a descriptor made of a strided view, type-erased or typed, is not
   constructed if the stride of the view is zero or negative, above what 16
   bits hold, or smaller than one element of a generic format; with any
   other stride no stride check fails and the constructed descriptor stores
   the stride of the view. *)
DirectStrideValidated ==
    (call.op = "MeshAttributeData" /\ call.kind \in {"erased", "typed"})
        => /\ StrideRejected(call) => ~call.result.ok
           /\ ~StrideRejected(call)
                 => /\ ~call.result.ok => call.result.message \notin StrideMessages
                    /\ call.result.ok => call.result.value.stride = call.stride

(* a typed view of stride zero, made into a descriptor *)
DirectStrideZeroAccepted ==
    /\ call.op = "MeshAttributeData" /\ call.kind = "typed"
    /\ call.name = MeshAttributePosition /\ call.type = "Vector2"
    /\ call.stride = 0 /\ call.size = 1
    /\ call.result.ok /\ call.result.value.stride = 0

(* C12: an offset-only descriptor is not constructed if the stride is zero
   or negative, above what 16 bits hold or smaller than one element of a
   generic format, if the format does not go with a builtin name, or if the
   array size is non-zero for a builtin name or an implementation-specific
   format; a constructed one is offset-only and stores the offset. *)
OffsetOnlyValidated ==
    (call.op = "MeshAttributeData" /\ call.kind = "offset")
        => /\ ( \/ StrideRejected(call)
                \/ ~isVertexFormatCompatibleWithAttribute(call.name, call.format)
                \/ (call.arraySize # 0 /\ ~isMeshAttributeCustom(call.name))
                \/ (call.arraySize # 0
                      /\ isVertexFormatImplementationSpecific(call.format)) )
              => ~call.result.ok
           /\ call.result.ok
              => (call.result.value.isOffsetOnly /\ call.result.value.data = call.data)

(* an offset-only descriptor of stride zero *)
OffsetOnlyStrideZeroAccepted ==
    /\ call.op = "MeshAttributeData" /\ call.kind = "offset"
    /\ call.name = MeshAttributePosition /\ call.format = VertexFormat("Vector3")
    /\ call.stride = 0 /\ call.data = 3
    /\ call.result.ok /\ call.result.value.isOffsetOnly

(* The table of formats a builtin name goes with, written by the shape of
   the format: its component count, component type and normalization. *)

FormatShape(format) ==
    [count |-> vertexFormatComponentCount(format).value,
     component |-> VertexFormatCase(vertexFormatComponentFormat(format).value),
     normalized |-> isVertexFormatNormalized(format).value]

FormatInTable(name, format) ==
    /\ format \in ValidGenericFormats
    /\ LET shape == FormatShape(format)
           floating == shape.component \in {"Float", "Half"}
           packed == shape.component \in {"UnsignedByte", "Byte",
                                          "UnsignedShort", "Short"}
           signedNormalized == shape.component \in {"Byte", "Short"}
                                  /\ shape.normalized
           unsignedNormalized == shape.component \in {"UnsignedByte", "UnsignedShort"}
                                    /\ shape.normalized
       IN CASE name = MeshAttributePosition ->
                  shape.count \in {2, 3} /\ (floating \/ packed)
            [] name = MeshAttributeNormal ->
                  shape.count = 3 /\ (floating \/ signedNormalized)
            [] name = MeshAttributeColor ->
                  shape.count \in {3, 4} /\ (floating \/ unsignedNormalized)
            [] name = MeshAttributeTextureCoordinates ->
                  shape.count = 2 /\ (floating \/ packed)
            [] OTHER -> FALSE

BuiltinNames ==
    {MeshAttributePosition, MeshAttributeNormal, MeshAttributeTextureCoordinates,
     MeshAttributeColor}

(* the call got as far as the check of the format against the name *)
FormatCheckReached(c) == c.stride >= 0 /\ c.stride <= 32767

FormatCheckPassed(c) ==
    c.result.ok
        \/ c.result.message # "Trade::MeshAttributeData: not a valid format for the name"

(* C13: when a descriptor is constructed with one of the four builtin names
   and a generic format, the check of the format against the name passes
   exactly when the format is in the table of that name; with a custom name
   or an implementation-specific format it always passes. *)
NameFormatTable ==
    (call.op = "MeshAttributeData" /\ FormatCheckReached(call))
        => /\ (call.name \in BuiltinNames
                 /\ ~isVertexFormatImplementationSpecific(call.format))
              => (FormatCheckPassed(call) <=> FormatInTable(call.name, call.format))
           /\ (isMeshAttributeCustom(call.name)
                 \/ isVertexFormatImplementationSpecific(call.format))
              => FormatCheckPassed(call)

NameFormatTableWitness ==
    /\ call.op = "MeshAttributeData" /\ call.kind = "erased"
    /\ call.name = MeshAttributeColor
    /\ call.format = VertexFormat("Vector4usNormalized")
    /\ call.stride = 8
    /\ call.result.ok

(* Whether an element type goes with a stored format, by shape: the same
   component count and component type, whatever the normalization. *)
SameShape(T, format) ==
    /\ format \in ValidGenericFormats
    /\ FormatShape(vertexFormatFor(T)).count = FormatShape(format).count
    /\ FormatShape(vertexFormatFor(T)).component = FormatShape(format).component

(* the color types of 8- and 16-bit components, whose format is normalized *)
NormalizedColorTypes == {"Color3ub", "Color3us", "Color4ub", "Color4us"}

TypedRequestsFail(precondition) ==
    \A request \in {call.attribute, call.mutableAttribute} :
        precondition => ~request.ok

TypedRequestsSucceed(precondition) ==
    \A request \in {call.attribute, call.mutableAttribute} :
        precondition => request.ok

(* the failures of C14, common to the claim and to its amendment *)
TypedRequestFailures(stored) ==
    /\ TypedRequestsFail(isVertexFormatImplementationSpecific(stored.format))
    /\ TypedRequestsFail(~SameShape(call.type, stored.format))
    /\ TypedRequestsFail(call.isArray # (stored.arraySize # 0))

(* C14 as claimed: a typed view of T is refused for an implementation-
   specific stored format, for a stored format of another shape than T and
   when T is an array type and the attribute is not an array (or the other
   way round); every type T is given a view of the stored format of its
   shape, normalized or not. *)
TypedAccessAnyNormalization ==
    (call.op = "attribute<T>" /\ call.id < Len(data.attributes))
        => LET stored == data.attributes[call.id + 1]
           IN /\ TypedRequestFailures(stored)
              /\ TypedRequestsSucceed(
                     /\ SameShape(call.type, stored.format)
                     /\ call.isArray = (stored.arraySize # 0))

(* C14: a typed view of T is refused for an implementation-specific stored
   format, for a stored format of another shape than T and when T is an
   array type and the attribute is not an array (or the other way round);
   every type T other than the normalized color types is given a view of
   the stored format of its shape, normalized or not, and a normalized color
   type is given one of the normalized format only. *)
TypedAccessChecked ==
    (call.op = "attribute<T>" /\ call.id < Len(data.attributes))
        => LET stored == data.attributes[call.id + 1]
               matches == /\ SameShape(call.type, stored.format)
                          /\ call.type \in NormalizedColorTypes
                                => isVertexFormatNormalized(stored.format).value
           IN /\ TypedRequestFailures(stored)
              /\ TypedRequestsFail(~matches)
              /\ TypedRequestsSucceed(
                     matches /\ call.isArray = (stored.arraySize # 0))

(* Vector2ub asked of a normalized attribute, in a mesh with an array attribute *)
TypedAccessCheckedWitness ==
    /\ call.op = "attribute<T>"
    /\ call.id < Len(data.attributes)
    /\ call.type = "Vector2ub" /\ ~call.isArray
    /\ data.attributes[call.id + 1].format = VertexFormat("Vector2ubNormalized")
    /\ call.attribute.ok /\ call.mutableAttribute.ok
    /\ Len(data.attributes) = 3
    /\ data.attributes[3].arraySize = 2

(* the absolute indices, from 0 and in stored order, of the attributes of a
   mesh that have the name *)
IndicesOfName(mesh, name) ==
    LET HasName(i) == mesh.attributes[i + 1].name = name
    IN SelectSeq([i \in 1..Len(mesh.attributes) |-> i - 1], HasName)

(* C15: attributeCount(name) is the number of stored attributes of that
   name, hasAttribute(name) says whether that number is not zero,
   attributeId(name, n) is the absolute index of the n-th attribute of that
   name in stored order for every n below attributeCount(name), and
   attributeId(name, n) fails for every other n. *)
AttributeLookup ==
    call.op = "attributeId"
        => LET found == IndicesOfName(data, call.name)
           IN /\ call.attributeCount = Len(found)
              /\ call.hasAttribute <=> (call.attributeCount # 0)
              /\ call.id < Len(found) => call.result = Ok(found[call.id + 1])
              /\ call.id >= Len(found) => ~call.result.ok

(* the second Position of a mesh that begins with a custom attribute *)
AttributeLookupWitness ==
    /\ call.op = "attributeId"
    /\ call.name = MeshAttributePosition /\ call.id = 1
    /\ Len(data.attributes) = 3
    /\ data.attributes[1].name = MeshAttributeCustom
    /\ call.attributeCount = 2
    /\ call.hasAttribute
    /\ call.result = Ok(2)

(* C16: vertexFormatSize(), vertexFormatComponentCount() and
   vertexFormatComponentFormat() each fail for the zero format, for a
   generic value that is no enumerator and for every implementation-specific
   format, and succeed for every enumerated generic format. *)
FormatQueriesFailOnInvalid ==
    call.op = "query"
        => /\ call.size.ok <=> call.format \in ValidGenericFormats
           /\ call.componentCount.ok <=> call.format \in ValidGenericFormats
           /\ call.componentFormat.ok <=> call.format \in ValidGenericFormats

(* the three asked of a wrapped implementation-specific value *)
FormatQueriesFailOnInvalidWitness ==
    /\ call.op = "query"
    /\ call.format = U32(1, 27)
    /\ ~call.size.ok /\ ~call.componentCount.ok /\ ~call.componentFormat.ok

(* the component types that have a normalized counterpart: the integers of
   one and two bytes *)
PackedComponents == {"UnsignedByte", "Byte", "UnsignedShort", "Short"}

(* C17: vertexFormat(base, count, normalized) fails for a count outside
   1..4, for a normalized request on a base whose component type is no 8- or
   16-bit integer, and for an implementation-specific base; for every
   enumerated base, count in 1..4 and a normalization that is not requested
   or is requested of an 8- or 16-bit integer component it returns the
   format of count components of the base's component type with the
   requested normalization. *)
AssembleChecked ==
    call.op = "vertexFormat"
        => LET valid == call.format \in ValidGenericFormats
               component == FormatShape(call.format).component
               permitted == ~call.normalized
                               \/ (/\ component \in PackedComponents
                                   /\ vertexFormatSize(VertexFormat(component)).value
                                         \in {1, 2})
           IN /\ call.componentCount \notin 1..4 => ~call.result.ok
              /\ (valid /\ ~permitted) => ~call.result.ok
              /\ isVertexFormatImplementationSpecific(call.format) => ~call.result.ok
              /\ (valid /\ permitted /\ call.componentCount \in 1..4)
                    => /\ call.result.ok
                       /\ call.result.value \in ValidGenericFormats
                       /\ FormatShape(call.result.value)
                             = [count |-> call.componentCount,
                                component |-> component,
                                normalized |-> call.normalized]

(* three normalized components made of a normalized four-component base *)
AssembleCheckedWitness ==
    /\ call.op = "vertexFormat"
    /\ call.format = VertexFormat("Vector4bNormalized")
    /\ call.componentCount = 3 /\ call.normalized
    /\ call.result = Ok(VertexFormat("Vector3bNormalized"))

(* C18: with a non-zero array size a descriptor is not constructed if the
   name is builtin, and not if the format is implementation-specific; every
   constructed descriptor with a non-zero array size has a custom name and a
   generic format. *)
ArraySizeRule ==
    call.op = "MeshAttributeData"
        => /\ (call.arraySize # 0 /\ ~isMeshAttributeCustom(call.name))
                 => ~call.result.ok
           /\ (call.arraySize # 0 /\ isVertexFormatImplementationSpecific(call.format))
                 => ~call.result.ok
           /\ (call.result.ok /\ call.result.value.arraySize # 0)
                 => /\ call.result.value.name >= MeshAttributeCustom
                    /\ call.result.value.format.top = 0

(* an array of two bytes under a custom name *)
ArraySizeRuleWitness ==
    /\ call.op = "MeshAttributeData" /\ call.kind = "erased"
    /\ call.arraySize = 2 /\ call.stride = 2
    /\ call.format = VertexFormat("UnsignedByte")
    /\ call.name = MeshAttributeCustom
    /\ call.result.ok /\ call.result.value.arraySize = 2

InvalidIndicesText ==
    "Trade::MeshData: indices are expected to be valid if there are no attributes and vertex count isn't passed explicitly"

(* C19: a MeshData constructor given no attributes and no vertex count fails
   unless the index descriptor it is given has a type, and with such a
   descriptor inside the index data it constructs an indexed mesh without
   attributes; the constructor given a vertex count n alone constructs, for
   every n, a mesh that is not indexed, has n vertices and no attributes. *)
AttributelessNeedsIndicesOrCount ==
    /\ (call.op = "MeshData" /\ Len(call.attributes) = 0)
          => /\ call.indices.kind = "nullptr"
                => (~call.result.ok /\ call.result.message.text = InvalidIndicesText)
             /\ (call.indices.kind = "typed" /\ IndexArgumentsValid
                   /\ FlagArgumentsValid)
                => /\ call.result.ok
                   /\ MeshData_isIndexed(data)
                   /\ MeshData_attributeCount(data) = 0
    /\ call.op = "MeshDataVertexCount"
          => /\ call.result.ok
             /\ ~MeshData_isIndexed(data)
             /\ MeshData_vertexCount(data) = call.count
             /\ MeshData_attributeCount(data) = 0

(* a mesh of 37 vertices and nothing else *)
AttributelessNeedsIndicesOrCountWitness ==
    /\ call.op = "MeshDataVertexCount"
    /\ call.count = 37
    /\ data.constructed
    /\ MeshData_vertexCount(data) = 37
    /\ ~MeshData_isIndexed(data)

(* C20: each of the five constructors that take data flags for a buffer the
   caller lends fails if the flags given for a lent buffer include Owned,
   and no constructed mesh reports Owned for a buffer it was lent: it reports
   the flags it was given. *)
BorrowedNeverOwned ==
    call.op = "MeshDataNotOwned"
        => /\ (call.indexBorrowed /\ "Owned" \in call.indexDataFlags)
                 => ~call.result.ok
           /\ (call.vertexBorrowed /\ "Owned" \in call.vertexDataFlags)
                 => ~call.result.ok
           /\ (call.result.ok /\ call.indexBorrowed)
                 => /\ "Owned" \notin MeshData_indexDataFlags(data)
                    /\ MeshData_indexDataFlags(data) = call.indexDataFlags
           /\ (call.result.ok /\ call.vertexBorrowed)
                 => /\ "Owned" \notin MeshData_vertexDataFlags(data)
                    /\ MeshData_vertexDataFlags(data) = call.vertexDataFlags

(* lent index data marked Owned is all that is wrong with the call *)
BorrowedNeverOwnedWitness ==
    /\ call.op = "MeshDataNotOwned"
    /\ call.overload = "attributeless"
    /\ call.indexDataFlags = OwnedMutable
    /\ ~call.result.ok
    /\ call.result.message.text
          = "Trade::MeshData: can't construct with non-owned index data but Trade::DataFlag::Owned"

DoesntSpecifyText == "Trade::MeshData: attribute doesn't specify anything"

(* the arguments before the i-th all specify something, describe as many
   elements as the first and lie inside the vertex data *)
ArgumentsBeforeInOrder(i) ==
    \A j \in 1..(i - 1) :
        /\ ArgumentSpecifies(call.attributes[j])
        /\ ArgumentCount(call.attributes[j]) = ArgumentCount(call.attributes[1])
        /\ ~ArgumentOutside(call.attributes[j], call.vertexData)

(* C21: a MeshData constructor fails whenever one of the descriptors the
   caller passes is default-constructed or a padding marker; when the indices
   are in order and so are the descriptors before it, the failure is the
   "doesn't specify anything" error naming its index; such an error always
   names a default-constructed descriptor or a padding marker; and no mesh
   holds a descriptor with the zero format. *)
AttributesSpecifySomething ==
    /\ call.op = "MeshData" =>
          \A i \in 1..Len(call.attributes) :
              ~ArgumentSpecifies(call.attributes[i]) => ~call.result.ok
    /\ call.op = "MeshData" =>
          \A i \in 1..Len(call.attributes) :
              (/\ ~ArgumentSpecifies(call.attributes[i])
               /\ IndexArgumentsValid
               /\ ArgumentsBeforeInOrder(i))
                  => /\ ~call.result.ok
                     /\ call.result.message.text = DoesntSpecifyText
                     /\ call.result.message.attribute = i - 1
    /\ (call.op = "MeshData" /\ ~call.result.ok
          /\ call.result.message.text = DoesntSpecifyText)
          => /\ call.result.message.attribute < Len(call.attributes)
             /\ call.attributes[call.result.message.attribute + 1].kind
                   \in {"default", "padding"}
    /\ data.constructed =>
          \A i \in 1..Len(MeshData_attributeData(data)) :
              MeshData_attributeData(data)[i].format # VertexFormatNone

(* a padding marker after positions that are in order, and a
   default-constructed descriptor alone *)
AttributesSpecifySomethingWitness ==
    /\ call.op = "MeshData"
    /\ IndexArgumentsValid
    /\ ~call.result.ok
    /\ call.result.message.text = DoesntSpecifyText
    /\ \/ /\ Len(call.attributes) = 2
          /\ call.attributes[1].kind = "view"
          /\ call.attributes[2].kind = "padding"
          /\ call.result.message.attribute = 1
       \/ /\ Len(call.attributes) = 1
          /\ call.attributes[1].kind = "default"
          /\ call.result.message.attribute = 0

(* C22: data() of a descriptor fails exactly when the descriptor is
   offset-only and data(vertexData) fails exactly when it is not; data()
   gives the stored pointer, and data(vertexData) the beginning of vertexData
   plus the stored offset, both with the stored element count and stride. *)
DataByDiscriminant ==
    call.op = "data"
        => /\ call.data.ok <=> ~call.attribute.isOffsetOnly
           /\ call.dataAt.ok <=> call.attribute.isOffsetOnly
           /\ call.data.ok
                 => call.data.value
                       = [data |-> call.attribute.data,
                          size |-> call.attribute.vertexCount,
                          stride |-> call.attribute.stride]
           /\ call.dataAt.ok
                 => call.dataAt.value
                       = [data |-> (call.vertexData.data + call.attribute.data)
                                      % AddressSpace,
                          size |-> call.attribute.vertexCount,
                          stride |-> call.attribute.stride]

(* an offset-only descriptor with a non-zero offset, asked for its data in a
   vertex array that is not null *)
DataByDiscriminantWitness ==
    /\ call.op = "data"
    /\ call.attribute.isOffsetOnly
    /\ call.attribute.data = 3
    /\ call.vertexData.data = VertexBase
    /\ ~call.data.ok
    /\ call.dataAt.ok
    /\ call.dataAt.value.data = VertexBase + 3
    /\ call.dataAt.value.size = 1

(* what an accepted padding marker holds: no name, no format, no vertex
   data, and the padding as its stride *)
PaddingMarkerOf(padding, attribute) ==
    /\ attribute.name = 0
    /\ attribute.format = VertexFormatNone
    /\ ~attribute.isOffsetOnly
    /\ MeshAttributeData_data(attribute).ok
    /\ MeshAttributeData_data(attribute).value.data = 0
    /\ MeshAttributeData_data(attribute).value.size = 0
    /\ MeshAttributeData_data(attribute).value.stride = padding

(* C26 as stated: the padding constructor accepts exactly the paddings from
   -32767 to 32767, and an accepted marker has no name, no format, no vertex
   data and the padding as its stride. *)
PaddingRangeSymmetric ==
    call.op = "MeshAttributeDataPadding"
        => /\ call.result.ok <=> (call.padding >= -32767 /\ call.padding <= 32767)
           /\ call.result.ok => PaddingMarkerOf(call.padding, call.result.value)

(* C26: the padding constructor accepts exactly the paddings from -32768 to
   32767, and an accepted marker has no name, no format, no vertex data and
   the padding as its stride. *)
PaddingRange ==
    call.op = "MeshAttributeDataPadding"
        => /\ call.result.ok <=> (call.padding >= -32768 /\ call.padding <= 32767)
           /\ call.result.ok => PaddingMarkerOf(call.padding, call.result.value)

(* the most negative padding is accepted and kept *)
PaddingRangeWitness ==
    /\ call.op = "MeshAttributeDataPadding"
    /\ call.padding = -32768
    /\ call.result.ok
    /\ call.result.value.stride = -32768

(* the arguments of the id-th attribute of a name, in the order passed *)
ArgumentsOfName(name) == SelectSeq(call.attributes, LAMBDA a : a.name = name)

(* the k-th byte, from 0, of the i-th element, from 0, an argument describes
   in the vertex array of the conversions *)
ArgumentByte(a, i, k) == MemoryByte(VertexBase + a.data + i * a.stride + k)

(* the stored byte as the number the format stands for *)
ArgumentValue(a, i, k) ==
    IF a.format \in {VertexFormat("Vector2ub"), VertexFormat("Vector3ub")}
    THEN [num |-> ArgumentByte(a, i, k), den |-> 1]
    ELSE [num |-> ArgumentByte(a, i, k), den |-> 255]

ArgumentComponents(a) ==
    IF a.format \in {VertexFormat("Vector2ub"), VertexFormat("Vector2ubNormalized")}
    THEN 2
    ELSE IF a.format = VertexFormat("Vector4ubNormalized") THEN 4 ELSE 3

(* C23: a conversion of the id-th position or color attribute gives as many
   elements as the mesh has vertices, the i-th made of the i-th stored
   element: positions2DAsArray gives its x and y and nothing else,
   positions3DAsArray its x, y and z with z = 0 if only two components are
   stored, colorsAsArray its r, g, b and alpha with alpha = 1 if only three
   components are stored. *)
AsArrayDefaults ==
    (call.op \in {"positions2DAsArray", "positions3DAsArray", "colorsAsArray"}
        /\ call.result.ok)
        => LET name == IF call.op = "colorsAsArray" THEN MeshAttributeColor
                       ELSE MeshAttributePosition
               a == ArgumentsOfName(name)[call.id + 1]
               wanted == CASE call.op = "positions2DAsArray" -> 2
                           [] call.op = "positions3DAsArray" -> 3
                           [] OTHER -> 4
               fill == IF call.op = "colorsAsArray"
                       THEN [num |-> 1, den |-> 1] ELSE [num |-> 0, den |-> 1]
           IN /\ call.id < Len(ArgumentsOfName(name))
              /\ Len(call.result.value) = MeshData_vertexCount(data)
              /\ Len(call.result.value) = a.size
              /\ \A i \in 1..Len(call.result.value) :
                    /\ Len(call.result.value[i]) = wanted
                    /\ \A k \in 1..wanted :
                          call.result.value[i][k]
                              = IF k <= ArgumentComponents(a)
                                THEN ArgumentValue(a, i - 1, k - 1)
                                ELSE fill

(* two-component positions of two vertices made three-component: the second
   element is the second stored one with z = 0 *)
AsArrayDefaultsWitness ==
    /\ call.op = "positions3DAsArray"
    /\ call.result.ok
    /\ Len(call.result.value) = 2
    /\ call.attributes[1].format = VertexFormat("Vector2ub")
    /\ call.id = 0
    /\ call.result.value[2]
          = << [num |-> MemoryByte(VertexBase + ConvertStride), den |-> 1],
               [num |-> MemoryByte(VertexBase + ConvertStride + 1), den |-> 1],
               [num |-> 0, den |-> 1] >>

(* the meshes passed are what combineIndexedAttributes() expects: at least
   one, all indexed, of one primitive and one index count *)
CombineExpected(meshes) ==
    /\ Len(meshes) > 0
    /\ \A k \in 1..Len(meshes) :
          /\ meshes[k].isIndexed
          /\ meshes[k].primitive = meshes[1].primitive
          /\ Len(meshes[k].indices) = Len(meshes[1].indices)

(* C24: of a non-empty list of indexed meshes of one primitive and one index
   count N, combineIndexedAttributes() makes a mesh of N UnsignedInt indices
   in which, at every position, the vertex the index refers to holds for
   every input the attribute values the input has at its own index of that
   position; two positions share a vertex exactly if every input has the
   same index at both, every vertex is referred to, and so the mesh has as
   many vertices as there are distinct combinations of input indices. *)
CombinedFaithfully ==
    (call.op = "combineIndexedAttributes" /\ CombineExpected(call.meshes))
        => LET meshes == call.meshes
               N == Len(meshes[1].indices)
               out == call.result.value
           IN /\ call.result.ok
              /\ out.primitive = meshes[1].primitive
              /\ out.indexType = MeshIndexType("UnsignedInt")
              /\ Len(out.indices) = N
              /\ \A i \in 1..N :
                    /\ out.indices[i] < out.vertexCount
                    /\ \A k \in 1..Len(meshes) :
                          out.attributes[k][out.indices[i] + 1]
                              = meshes[k].vertices[meshes[k].indices[i] + 1]
              /\ \A i, j \in 1..N :
                    (out.indices[i] = out.indices[j])
                        <=> (\A k \in 1..Len(meshes) :
                                meshes[k].indices[i] = meshes[k].indices[j])
              /\ \A v \in 0..(out.vertexCount - 1) :
                    \E i \in 1..N : out.indices[i] = v
              /\ \A k \in 1..Len(meshes) :
                    Len(out.attributes[k]) = out.vertexCount
              /\ out.vertexCount
                    = Cardinality({[k \in 1..Len(meshes) |-> meshes[k].indices[i]] :
                                      i \in 1..N})

(* the positions and normals of the documentation give seven vertices and
   the unified indices written there *)
CombinedFaithfullyWitness ==
    /\ call.op = "combineIndexedAttributes"
    /\ Len(call.meshes) = 2
    /\ call.meshes[1].indices = << 0, 2, 5, 0, 0, 1, 3, 2, 2 >>
    /\ call.meshes[2].indices = << 1, 3, 4, 1, 4, 6, 1, 3, 1 >>
    /\ call.result.ok
    /\ call.result.value.vertexCount = 7
    /\ call.result.value.indices = << 0, 1, 2, 0, 3, 4, 5, 1, 6 >>

(* C25 as stated: indexCount() of an indexed mesh is never zero, whatever
   was constructed and released. *)
IndexCountNonZero ==
    (data.constructed /\ MeshData_isIndexed(data))
        => /\ MeshData_indexCount(data).ok
           /\ MeshData_indexCount(data).value # 0

(* C25: indexCount() of an indexed mesh is the number of elements of
   indices(): the number of indices the caller passed, zero for an empty
   index view, and zero once the index data is released, the mesh staying
   indexed. *)
IndexCountOfIndices ==
    (data.constructed /\ MeshData_isIndexed(data))
        => /\ MeshData_indexCount(data).ok
           /\ MeshData_indexCount(data).value = MeshData_indices(data).value.size[1]
           /\ call.op = "MeshData"
                 => /\ call.indices.kind = "typed"
                    /\ MeshData_indexCount(data).value = call.indices.size
           /\ call.op = "releaseIndexData"
                 => MeshData_indexCount(data).value = 0

(* an indexed mesh made of an empty index view *)
IndexCountOfIndicesWitness ==
    /\ call.op = "MeshData"
    /\ call.result.ok
    /\ call.indices.kind = "typed"
    /\ call.indices.size = 0
    /\ MeshData_isIndexed(data)
    /\ MeshData_indexCount(data) = Ok(0)

(* C27: a mesh constructed without attributes and without an explicit vertex
   count has vertexCount() = 0, however many indices it has and however
   large its vertex data is. *)
AttributelessVertexCount ==
    (call.op = "MeshData" /\ call.result.ok /\ Len(call.attributes) = 0)
        => /\ MeshData_vertexCount(data) = 0
           /\ MeshData_attributeCount(data) = 0
           /\ MeshData_isIndexed(data)
           /\ MeshData_indexCount(data).value = call.indices.size
           /\ MeshData_vertexData(data) = call.vertexData

(* an index and a vertex array that is not empty, no attributes *)
AttributelessVertexCountWitness ==
    /\ call.op = "MeshData"
    /\ call.result.ok
    /\ Len(call.attributes) = 0
    /\ call.indices.size = 1
    /\ call.vertexData.size > 0
    /\ MeshData_vertexCount(data) = 0

(* C28: whatever accessor is read and whatever is released of a constructed
   mesh, the mesh stays constructed and indexDataFlags(), vertexDataFlags(),
   primitive(), isIndexed() and indexType() return after the step what they
   returned before it, so what they returned after the construction; and
   reading an accessor leaves the whole mesh as it was, so no other accessor
   returns anything else after it. *)
ConstructionValuesKept ==
    [][data.constructed
          => /\ data'.constructed
             /\ MeshData_indexDataFlags(data') = MeshData_indexDataFlags(data)
             /\ MeshData_vertexDataFlags(data') = MeshData_vertexDataFlags(data)
             /\ MeshData_primitive(data') = MeshData_primitive(data)
             /\ MeshData_isIndexed(data') = MeshData_isIndexed(data)
             /\ MeshData_indexType(data') = MeshData_indexType(data)
             /\ call'.op = "read" => data' = data]_vars

(* the index data of an indexed mesh of immutable borrowed index data was
   just released *)
ConstructionValuesKeptWitness ==
    /\ call.op = "releaseIndexData"
    /\ data.constructed
    /\ MeshData_indexDataFlags(data) = {}
    /\ MeshData_vertexDataFlags(data) = {"Mutable"}
    /\ MeshData_isIndexed(data)
    /\ MeshData_indexType(data) = Ok(MeshIndexType("UnsignedShort"))
    /\ MeshData_indexCount(data) = Ok(0)

(* the component formats of 8 and 16 bits, the ones with a normalized variant *)
PackedComponentFormats ==
    {VertexFormat("UnsignedByte"), VertexFormat("Byte"),
     VertexFormat("UnsignedShort"), VertexFormat("Short")}

(* the format of the identifier after the one of a format *)
FormatAfter(format) == U32(format.top, format.low + 1)

(* C29: the generic formats are the identifiers from 1 on without a gap, 0
   being invalid; a plain format of 8- or 16-bit integer components, of one to
   four of them, is followed by its normalized variant, the format of the
   same components whose name is the name with Normalized appended; a
   normalized format follows its plain variant; and vertexFormat() asked for
   a normalized format gives the identifier after the one it gives for the
   plain format. *)
NormalizedFollowsPlain ==
    /\ call.op = "query"
          => /\ call.size.ok <=> (call.format.top = 0 /\ call.format.low >= 1
                                     /\ call.format.low <= Len(VertexFormatNames))
             /\ call.format = VertexFormatNone => ~call.size.ok
             /\ (call.size.ok /\ call.format.low > 1)
                   => vertexFormatSize(U32(0, call.format.low - 1)).ok
    /\ (call.op = "query" /\ call.normalized.ok
          /\ call.componentFormat.value \in PackedComponentFormats
          /\ ~call.normalized.value)
          => LET after == FormatAfter(call.format)
             IN /\ isVertexFormatNormalized(after) = Ok(TRUE)
                /\ VertexFormatCase(after)
                      = VertexFormatCase(call.format) \o "Normalized"
                /\ vertexFormatComponentFormat(after) = call.componentFormat
                /\ vertexFormatComponentCount(after) = call.componentCount
                /\ vertexFormatSize(after) = call.size
    /\ (call.op = "query" /\ call.normalized.ok /\ call.normalized.value)
          => /\ call.componentFormat.value \in PackedComponentFormats
             /\ call.format.low > 1
             /\ isVertexFormatNormalized(U32(0, call.format.low - 1)) = Ok(FALSE)
             /\ VertexFormatCase(call.format)
                   = VertexFormatCase(U32(0, call.format.low - 1)) \o "Normalized"
    /\ (call.op = "vertexFormat" /\ call.normalized /\ call.result.ok)
          => /\ vertexFormat(call.format, call.componentCount, FALSE).ok
             /\ call.result.value
                   = FormatAfter(vertexFormat(call.format, call.componentCount,
                                              FALSE).value)

(* the three-component unsigned short format is queried, its normalized
   variant is the next identifier *)
NormalizedFollowsPlainWitness ==
    /\ call.op = "query"
    /\ call.format = VertexFormat("Vector3us")
    /\ call.normalized = Ok(FALSE)
    /\ FormatAfter(call.format) = VertexFormat("Vector3usNormalized")

(* C30: the size of a valid generic format is its component count times the
   size of its component format, and the component format is a format of one
   component that is not normalized. *)
SizeIsCountTimesComponent ==
    (call.op = "query" /\ call.format \in ValidGenericFormats)
        => /\ call.size.ok /\ call.componentCount.ok /\ call.componentFormat.ok
           /\ call.componentFormat.value \in ValidGenericFormats
           /\ vertexFormatSize(call.componentFormat.value).ok
           /\ call.size.value
                 = call.componentCount.value
                      * vertexFormatSize(call.componentFormat.value).value
           /\ vertexFormatComponentCount(call.componentFormat.value) = Ok(1)
           /\ isVertexFormatNormalized(call.componentFormat.value) = Ok(FALSE)

(* a normalized format of four components of two bytes is queried *)
SizeIsCountTimesComponentWitness ==
    /\ call.op = "query"
    /\ call.format = VertexFormat("Vector4usNormalized")
    /\ call.size = Ok(8)
    /\ call.componentCount = Ok(4)
    /\ call.componentFormat = Ok(VertexFormat("UnsignedShort"))

====
